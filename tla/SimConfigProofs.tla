-------------------------- MODULE SimConfigProofs --------------------------
(***************************************************************************)
(* Proofs about SimConfig: the cached flags are always exact, rule         *)
(* identifiers are always distinct and every variable keeps its type, for  *)
(* every set of settings, headings, payloads and files, and every bound.   *)
(***************************************************************************)
EXTENDS SimConfig, FiniteSetTheorems, SequenceTheorems, WellFoundedInduction, TLAPS

(***************************************************************************)
(* The cached flags.  Every method either refreshes them or leaves alone   *)
(* what they are computed from; that needs one fact besides FlagsExact     *)
(* itself, the shape of the runtime record.                                *)
(***************************************************************************)
RuntimeShape == runtime = [listening |-> runtime.listening, state |-> runtime.state,
                           error |-> runtime.error]

FlagsInv == RuntimeShape /\ FlagsExact

\* What the flags are computed from, and the flags.
flagVars == <<config, baseline, applied, runtime, dirty, restartRequired>>

LEMMA RefreshedFlagsExact ==
  ASSUME UpdateRuntimeFlags
  PROVE  FlagsExact'
<1>1. dirty' <=> ~Same(config', baseline')
  BY DEF UpdateRuntimeFlags
<1>2. restartRequired' <=> runtime'.listening /\ config'.hsms.conn # applied'
  BY DEF UpdateRuntimeFlags
<1> QED
  BY <1>1, <1>2 DEF FlagsExact, Same, Content

LEMMA UntouchedFlagsExact ==
  ASSUME FlagsInv, UNCHANGED flagVars
  PROVE  FlagsInv'
<1>1. RuntimeShape'
  BY DEF FlagsInv, RuntimeShape, flagVars
<1>2. FlagsExact'
  BY DEF FlagsInv, FlagsExact, Same, Content, flagVars
<1> QED
  BY <1>1, <1>2 DEF FlagsInv

LEMMA EditKeepsFlags ==
  ASSUME FlagsInv, EditNext
  PROVE  FlagsInv'
<1>1. UNCHANGED runtime /\ UpdateRuntimeFlags
  BY DEF EditNext, UpdateHSMS, UpdateDevice, NewRule, UpdateRule, DuplicateRule, DeleteRule,
         MoveRule, EditRules, Edited
<1>2. RuntimeShape'
  BY <1>1 DEF FlagsInv, RuntimeShape
<1> QED
  BY <1>1, <1>2, RefreshedFlagsExact DEF FlagsInv

LEMMA FileKeepsFlags ==
  ASSUME FlagsInv, FileNext \/ ClearLog
  PROVE  FlagsInv'
<1>1. CASE Save \/ Reload \/ Restart
  <2>1. UpdateRuntimeFlags
    BY <1>1 DEF Save, Reload, Restart
  <2>2. runtime' \in {runtime, Starting}
    BY <1>1 DEF Save, Reload, Restart
  <2>3. RuntimeShape'
    BY <2>2 DEF FlagsInv, RuntimeShape, Starting
  <2> QED
    BY <2>1, <2>3, RefreshedFlagsExact DEF FlagsInv
<1>2. CASE RefusesToStart \/ (\E f \in FileEdits : EditFile(f)) \/ ClearLog
  <2>1. UNCHANGED flagVars
    BY <1>2 DEF RefusesToStart, EditFile, ClearLog, flagVars
  <2> QED
    BY <2>1, UntouchedFlagsExact
<1> QED
  BY <1>1, <1>2 DEF FileNext

LEMMA RuntimeKeepsFlags ==
  ASSUME FlagsInv, RuntimeNext
  PROVE  FlagsInv'
<1>1. ASSUME NEW listening, NEW state, SetRuntime(listening, state)
      PROVE  FlagsInv'
  <2>1. RuntimeShape'
    BY <1>1 DEF SetRuntime, RuntimeShape
  <2> QED
    BY <1>1, <2>1, RefreshedFlagsExact DEF SetRuntime, FlagsInv
<1>2. ASSUME NEW conn, RecordAppliedHSMS(conn)
      PROVE  FlagsInv'
  <2>1. RuntimeShape'
    BY <1>2 DEF RecordAppliedHSMS, RuntimeShape, FlagsInv
  <2> QED
    BY <1>2, <2>1, RefreshedFlagsExact DEF RecordAppliedHSMS, FlagsInv
<1>3. ASSUME NEW x, SetRuntimeError(x) \/ SetHSMSState(x)
      PROVE  FlagsInv'
  <2>1. RuntimeShape' /\ runtime'.listening = runtime.listening
    BY <1>3 DEF SetRuntimeError, SetHSMSState, RuntimeShape, FlagsInv
  <2>2. UNCHANGED <<config, baseline, applied, dirty, restartRequired>>
    BY <1>3 DEF SetRuntimeError, SetHSMSState
  <2>3. FlagsExact'
    BY <2>1, <2>2 DEF FlagsInv, FlagsExact, Same, Content
  <2> QED
    BY <2>1, <2>3 DEF FlagsInv
<1> QED
  BY <1>1, <1>2, <1>3 DEF RuntimeNext, ToggleRuntime

LEMMA InitFlags == Init => FlagsInv
<1> SUFFICES ASSUME Init PROVE FlagsInv
  OBVIOUS
<1>1. RuntimeShape
  BY DEF Init, RuntimeShape, Starting
<1>2. Same(config, baseline) /\ ~dirty /\ ~restartRequired /\ ~runtime.listening
  BY DEF Init, Same, Starting
<1> QED
  BY <1>1, <1>2 DEF FlagsInv, FlagsExact

LEMMA FlagsKept == FlagsInv /\ [Next]_configVars => FlagsInv'
<1>1. ASSUME FlagsInv, UNCHANGED configVars PROVE FlagsInv'
  BY <1>1, UntouchedFlagsExact DEF configVars, flagVars
<1> QED
  BY <1>1, EditKeepsFlags, FileKeepsFlags, RuntimeKeepsFlags DEF Next

\* The flags are never stale: after every call Dirty and RestartRequired are what
\* the working configuration, the baseline and the applied settings make them.
THEOREM FlagsAlwaysExact == Spec => []FlagsExact
<1>1. FlagsInv => FlagsExact
  BY DEF FlagsInv
<1> QED
  BY <1>1, InitFlags, FlagsKept, PTL DEF Spec

(***************************************************************************)
(* Rule identifiers.  A sequence of rules is Issued below n when its       *)
(* identifiers are distinct, generated by the store, and smaller than n.   *)
(***************************************************************************)
IdsDistinct(s) == \A i, j \in DOMAIN s : i # j => s[i].id # s[j].id
IdsBelow(s, n) == \A i \in DOMAIN s : s[i].id \in Generated /\ s[i].id < n
Issued(s, n) == IsSequence(s) /\ IdsDistinct(s) /\ IdsBelow(s, n)

IdsInv ==
  /\ IsConfig(config) /\ IsConfig(baseline) /\ IsFile(file)
  /\ nextRuleID \in Generated /\ Issued(config.rules, nextRuleID)
  /\ NextIdentifier(RuleIds(baseline.rules)) \in Generated
  /\ Issued(baseline.rules, NextIdentifier(RuleIds(baseline.rules)))

(***************************************************************************)
(* Sequences as functions.                                                 *)
(***************************************************************************)
LEMMA SequenceLength ==
  ASSUME NEW s, IsSequence(s)
  PROVE  Len(s) \in Nat /\ DOMAIN s = 1 .. Len(s) /\ s = [i \in 1 .. Len(s) |-> s[i]]
  BY LenProperties DEF IsSequence

LEMMA SequenceIntro ==
  ASSUME NEW n \in Nat, NEW f, f = [i \in 1 .. n |-> f[i]]
  PROVE  IsSequence(f) /\ Len(f) = n
<1>1. f \in [1 .. n -> ToSet(f)]
  BY DEF ToSet
<1>2. f \in Seq(ToSet(f))
  BY <1>1, IsASeq
<1>3. DOMAIN f = 1 .. n
  BY <1>1
<1> QED
  BY <1>2, <1>3, LenProperties DEF IsSequence

LEMMA SequenceOf ==
  ASSUME NEW S, NEW s \in Seq(S)
  PROVE  IsSequence(s)
<1>1. Len(s) \in Nat /\ s \in [1 .. Len(s) -> S]
  BY LenProperties
<1> QED
  BY <1>1, SequenceIntro

LEMMA SequenceIn ==
  ASSUME NEW s, IsSequence(s), NEW S, \A i \in DOMAIN s : s[i] \in S
  PROVE  s \in Seq(S)
<1>1. ToSet(s) \subseteq S
  BY DEF ToSet
<1> QED
  BY <1>1, SeqMonotonic DEF IsSequence

(***************************************************************************)
(* The list operations of the store keep the identifiers distinct.         *)
(***************************************************************************)
LEMMA AppendIssued ==
  ASSUME NEW s, NEW n \in Generated, Issued(s, n), NEW e, e.id = n
  PROVE  Issued(Append(s, e), n + 1)
<1> DEFINE S == ToSet(s) \cup {e}
           t == Append(s, e)
<1>1. s \in Seq(S) /\ e \in S
  BY SequenceIn DEF Issued, ToSet
<1> HIDE DEF S
<1>2. /\ t \in Seq(S) /\ Len(t) = Len(s) + 1 /\ t[Len(s) + 1] = e
      /\ \A i \in 1 .. Len(s) : t[i] = s[i]
      /\ Len(s) \in Nat /\ DOMAIN s = 1 .. Len(s)
  BY <1>1, AppendProperties, LenProperties
<1>3. IsSequence(t) /\ DOMAIN t = 1 .. Len(s) + 1
  BY <1>2, SequenceOf, SequenceLength
<1> HIDE DEF t
<1>4. ASSUME NEW i \in DOMAIN t
      PROVE  (i \in DOMAIN s /\ t[i] = s[i]) \/ (i = Len(s) + 1 /\ t[i] = e)
  <2>1. i \in 1 .. Len(s) \/ i = Len(s) + 1
    BY <1>2, <1>3
  <2>2. CASE i \in 1 .. Len(s)
    BY <1>2, <2>2
  <2>3. CASE i = Len(s) + 1
    BY <1>2, <2>3
  <2> QED
    BY <2>1, <2>2, <2>3
<1>5. IdsBelow(t, n + 1)
  BY <1>4 DEF Issued, IdsBelow, Generated
<1>6. IdsDistinct(t)
  BY <1>4 DEF Issued, IdsBelow, IdsDistinct, Generated
<1> QED
  BY <1>3, <1>5, <1>6 DEF Issued, t

LEMMA ChangeIssued ==
  ASSUME NEW s, NEW n, Issued(s, n), NEW i \in DOMAIN s, NEW e, e.id = s[i].id
  PROVE  Issued([s EXCEPT ![i] = e], n)
<1> DEFINE t == [s EXCEPT ![i] = e]
<1>1. DOMAIN t = DOMAIN s /\ \A k \in DOMAIN s : t[k].id = s[k].id
  OBVIOUS
<1>2. IsSequence(t)
  BY SequenceLength, SequenceIntro DEF Issued
<1> HIDE DEF t
<1>3. IdsBelow(t, n) /\ IdsDistinct(t)
  BY <1>1 DEF Issued, IdsBelow, IdsDistinct
<1> QED
  BY <1>2, <1>3 DEF Issued, t

LEMMA SwapIssued ==
  ASSUME NEW s, NEW n, Issued(s, n), NEW i \in DOMAIN s, NEW j \in DOMAIN s, i # j
  PROVE  Issued([s EXCEPT ![i] = s[j], ![j] = s[i]], n)
<1> DEFINE t == [s EXCEPT ![i] = s[j], ![j] = s[i]]
           from(k) == IF k = i THEN j ELSE IF k = j THEN i ELSE k
<1>1. DOMAIN t = DOMAIN s /\ \A k \in DOMAIN s : t[k] = s[from(k)] /\ from(k) \in DOMAIN s
  OBVIOUS
<1>2. IsSequence(t)
  BY SequenceLength, SequenceIntro DEF Issued
<1>3. \A k, l \in DOMAIN s : k # l => from(k) # from(l)
  OBVIOUS
<1> HIDE DEF t, from
<1>4. IdsBelow(t, n) /\ IdsDistinct(t)
  BY <1>1, <1>3 DEF Issued, IdsBelow, IdsDistinct
<1> QED
  BY <1>2, <1>4 DEF Issued, t

LEMMA RemoveIssued ==
  ASSUME NEW s, NEW n, Issued(s, n), NEW i \in DOMAIN s
  PROVE  Issued(RemoveAt(s, i), n)
<1> DEFINE S == ToSet(s)
           a == SubSeq(s, 1, i - 1)
           b == SubSeq(s, i + 1, Len(s))
           t == RemoveAt(s, i)
           from(k) == IF k < i THEN k ELSE k + 1
<1>1. s \in Seq(S) /\ Len(s) \in Nat /\ DOMAIN s = 1 .. Len(s) /\ i \in 1 .. Len(s)
  BY SequenceLength DEF Issued, IsSequence
<1>2. \A k \in 1 .. Len(s) : s[k] \in S
  BY <1>1 DEF ToSet
<1> HIDE DEF S
<1>3. a \in Seq(S) /\ Len(a) = i - 1 /\ \A k \in 1 .. i - 1 : a[k] = s[k]
  BY <1>1, <1>2, SubSeqProperties
<1>4. b \in Seq(S) /\ Len(b) = Len(s) - i /\ \A k \in 1 .. Len(s) - i : b[k] = s[i + k]
  BY <1>1, <1>2, SubSeqProperties
<1>5. t = a \o b
  BY DEF RemoveAt
<1> HIDE DEF a, b, t
<1>6. /\ t \in Seq(S) /\ Len(t) = Len(s) - 1
      /\ \A k \in 1 .. Len(s) - 1 : t[k] = IF k <= i - 1 THEN a[k] ELSE b[k - (i - 1)]
  <2>1. /\ t \in Seq(S) /\ Len(t) = Len(a) + Len(b)
        /\ \A k \in 1 .. Len(a) + Len(b) : t[k] = IF k <= Len(a) THEN a[k] ELSE b[k - Len(a)]
    BY <1>3, <1>4, <1>5, ConcatProperties
  <2>2. Len(a) = i - 1 /\ Len(a) + Len(b) = Len(s) - 1
    BY <1>1, <1>3, <1>4
  <2> QED
    BY <2>1, <2>2
<1>7. IsSequence(t) /\ DOMAIN t = 1 .. Len(s) - 1
  BY <1>6, SequenceOf, SequenceLength
<1>8. \A k \in DOMAIN t : t[k] = s[from(k)] /\ from(k) \in DOMAIN s
  <2> SUFFICES ASSUME NEW k \in 1 .. Len(s) - 1
               PROVE  t[k] = s[from(k)] /\ from(k) \in DOMAIN s
    BY <1>7
  <2>1. CASE k < i
    BY <1>1, <1>3, <1>6, <2>1
  <2>2. CASE ~(k < i)
    <3>1. k - (i - 1) \in 1 .. Len(s) - i /\ i + (k - (i - 1)) = k + 1
      BY <1>1, <2>2
    <3> QED
      BY <1>1, <1>4, <1>6, <2>2, <3>1
  <2> QED
    BY <2>1, <2>2
<1>9. \A k, l \in DOMAIN t : k # l => from(k) # from(l)
  BY <1>1, <1>7
<1> HIDE DEF from
<1>10. IdsBelow(t, n) /\ IdsDistinct(t)
  BY <1>8, <1>9 DEF Issued, IdsBelow, IdsDistinct
<1> QED
  BY <1>7, <1>10 DEF Issued, t

LEMMA InsertIssued ==
  ASSUME NEW s, NEW n \in Generated, Issued(s, n), NEW i \in DOMAIN s, NEW e, e.id = n
  PROVE  Issued(InsertAt(s, i + 1, e), n + 1)
<1> DEFINE S == ToSet(s) \cup {e}
           a == SubSeq(s, 1, (i + 1) - 1)
           b == SubSeq(s, i + 1, Len(s))
           t == InsertAt(s, i + 1, e)
           from(k) == IF k <= i THEN k ELSE k - 1
<1>1. Len(s) \in Nat /\ DOMAIN s = 1 .. Len(s) /\ i \in 1 .. Len(s)
  BY SequenceLength DEF Issued
<1>2. e \in S /\ \A k \in 1 .. Len(s) : s[k] \in S
  BY <1>1 DEF ToSet
<1> HIDE DEF S
<1>3. a \in Seq(S) /\ Len(a) = i /\ \A k \in 1 .. i : a[k] = s[k]
  BY <1>1, <1>2, SubSeqProperties
<1>4. b \in Seq(S) /\ Len(b) = Len(s) - i /\ \A k \in 1 .. Len(s) - i : b[k] = s[i + k]
  BY <1>1, <1>2, SubSeqProperties
<1>5. t = (a \o <<e>>) \o b
  BY DEF InsertAt
<1>6. <<e>> \in Seq(S) /\ Len(<<e>>) = 1 /\ <<e>>[1] = e
  BY <1>2
<1> HIDE DEF a, b, t
<1>7. /\ a \o <<e>> \in Seq(S) /\ Len(a \o <<e>>) = i + 1
      /\ \A k \in 1 .. i + 1 : (a \o <<e>>)[k] = IF k <= i THEN a[k] ELSE <<e>>[k - i]
  BY <1>1, <1>3, <1>6, ConcatProperties
<1>8. /\ t \in Seq(S) /\ Len(t) = Len(s) + 1
      /\ \A k \in 1 .. Len(s) + 1 :
           t[k] = IF k <= i + 1 THEN (a \o <<e>>)[k] ELSE b[k - (i + 1)]
  <2> DEFINE c == a \o <<e>>
  <2>1. t = c \o b /\ c \in Seq(S) /\ Len(c) = i + 1
    BY <1>5, <1>7
  <2> HIDE DEF c
  <2>2. /\ t \in Seq(S) /\ Len(t) = Len(c) + Len(b)
        /\ \A k \in 1 .. Len(c) + Len(b) : t[k] = IF k <= Len(c) THEN c[k] ELSE b[k - Len(c)]
    BY <1>4, <2>1, ConcatProperties
  <2>3. Len(c) + Len(b) = Len(s) + 1
    BY <1>1, <1>4, <2>1
  <2> QED
    BY <2>1, <2>2, <2>3 DEF c
<1>9. IsSequence(t) /\ DOMAIN t = 1 .. Len(s) + 1
  BY <1>8, SequenceOf, SequenceLength
<1>10. t[i + 1] = e
  BY <1>1, <1>6, <1>7, <1>8
<1>11. \A k \in DOMAIN t \ {i + 1} : t[k] = s[from(k)] /\ from(k) \in DOMAIN s
  <2> SUFFICES ASSUME NEW k \in 1 .. Len(s) + 1, k # i + 1
               PROVE  t[k] = s[from(k)] /\ from(k) \in DOMAIN s
    BY <1>9
  <2>1. CASE k <= i
    BY <1>1, <1>3, <1>7, <1>8, <2>1
  <2>2. CASE ~(k <= i)
    <3>1. k - (i + 1) \in 1 .. Len(s) - i /\ i + (k - (i + 1)) = k - 1 /\ ~(k <= i + 1)
      BY <1>1, <2>2
    <3>2. t[k] = b[k - (i + 1)]
      BY <1>8, <3>1
    <3>3. b[k - (i + 1)] = s[k - 1]
      BY <1>4, <3>1
    <3>4. k - 1 \in DOMAIN s
      BY <1>1, <2>2
    <3> QED
      BY <2>2, <3>2, <3>3, <3>4
  <2> QED
    BY <2>1, <2>2
<1>12. \A k, l \in DOMAIN t \ {i + 1} : k # l => from(k) # from(l)
  BY <1>1, <1>9
<1> HIDE DEF from
<1>13. IdsBelow(t, n + 1)
  BY <1>10, <1>11 DEF Issued, IdsBelow, Generated
<1>14. IdsDistinct(t)
  BY <1>10, <1>11, <1>12 DEF Issued, IdsBelow, IdsDistinct, Generated
<1> QED
  BY <1>9, <1>13, <1>14 DEF Issued, t

(***************************************************************************)
(* The next identifier.  A bounded set of numbers has a least strict upper *)
(* bound, and that is 1 or one more than a member.                         *)
(***************************************************************************)
LEMMA NextIdentifierAbove ==
  ASSUME NEW ids, NEW b \in Nat, \A i \in ids : i \in Generated /\ i < b
  PROVE  /\ NextIdentifier(ids) \in Generated
         /\ \A i \in ids : i < NextIdentifier(ids)
<1> DEFINE used == ids \cap Generated
           T == {n \in Generated : \A i \in used : i < n}
           choices == {1} \cup {i + 1 : i \in used}
<1>1. T \subseteq Nat /\ T # {}
  <2>1. b + 1 \in T
    BY DEF Generated
  <2> QED
    BY <2>1 DEF Generated
<1>2. PICK m \in T : \A n \in T : ~(<<n, m>> \in OpToRel(<, Nat))
  <2> HIDE DEF T
  <2> QED
    BY <1>1, NatLessThanWellFounded, WFMin, Zenon
<1>3. \A n \in T : m <= n
  <2> SUFFICES ASSUME NEW n \in T PROVE m <= n
    OBVIOUS
  <2> HIDE DEF T
  <2>1. ~(n < m)
    BY <1>1, <1>2, Zenon DEF OpToRel
  <2> QED
    BY <1>1, <2>1
<1>4. m \in choices
  <2> SUFFICES ASSUME m # 1 PROVE \E i \in used : m = i + 1
    OBVIOUS
  <2>1. m - 1 \in Generated /\ ~(m <= m - 1)
    BY DEF Generated
  <2>2. m - 1 \notin T
    BY <1>3, <2>1
  <2>3. PICK i \in used : ~(i < m - 1)
    BY <2>1, <2>2
  <2>4. i < m
    BY <2>3
  <2> QED
    BY <2>1, <2>3, <2>4 DEF Generated
<1>5. \E n \in choices : \A i \in used : i < n
  BY <1>4
<1>6. /\ NextIdentifier(ids) \in choices
      /\ \A i \in used : i < NextIdentifier(ids)
  BY <1>5 DEF NextIdentifier
<1>7. used = ids /\ \A n \in choices : n \in Generated
  BY DEF Generated
<1> QED
  BY <1>6, <1>7

LEMMA NextIdentifierIssued ==
  ASSUME NEW s, NEW b \in Nat, Issued(s, b)
  PROVE  /\ NextIdentifier(RuleIds(s)) \in Generated
         /\ Issued(s, NextIdentifier(RuleIds(s)))
<1>1. \A i \in RuleIds(s) : i \in Generated /\ i < b
  BY DEF Issued, IdsBelow, RuleIds
<1>2. /\ NextIdentifier(RuleIds(s)) \in Generated
      /\ \A i \in RuleIds(s) : i < NextIdentifier(RuleIds(s))
  BY <1>1, NextIdentifierAbove
<1>3. \A k \in DOMAIN s : s[k].id \in RuleIds(s)
  BY DEF RuleIds
<1> QED
  BY <1>1, <1>2, <1>3 DEF Issued, IdsBelow

(***************************************************************************)
(* Loading a file numbers its rules from 1.                                *)
(***************************************************************************)
LEMMA NumberedIssued ==
  ASSUME NEW rules, IsSequence(rules)
  PROVE  /\ NextIdentifier(RuleIds(Numbered(rules))) \in Generated
         /\ Issued(Numbered(rules), NextIdentifier(RuleIds(Numbered(rules))))
<1> DEFINE t == Numbered(rules)
<1>1. Len(rules) \in Nat /\ DOMAIN rules = 1 .. Len(rules)
  BY SequenceLength
<1>2. DOMAIN t = DOMAIN rules /\ t = [i \in DOMAIN rules |-> t[i]]
  BY DEF Numbered
<1>3. \A i \in DOMAIN rules : t[i].id = i
  BY DEF Numbered
<1> HIDE DEF t
<1>4. IsSequence(t)
  BY <1>1, <1>2, SequenceIntro
<1>5. Issued(t, Len(rules) + 1)
  BY <1>1, <1>2, <1>3, <1>4 DEF Issued, IdsBelow, IdsDistinct, Generated
<1> QED
  BY <1>1, <1>5, NextIdentifierIssued DEF t

LEMMA ContentShape ==
  ASSUME NEW c, IsConfig(c), IsSequence(c.rules)
  PROVE  IsSequence(Content(c).rules) /\ IsFile(Content(c))
<1> DEFINE t == Content(c).rules
<1>1. t = [i \in DOMAIN c.rules |-> RuleContent(c.rules[i])]
  BY DEF Content, IsConfig
<1>2. Len(c.rules) \in Nat /\ DOMAIN c.rules = 1 .. Len(c.rules)
  BY SequenceLength
<1>3. t = [i \in 1 .. Len(c.rules) |-> t[i]]
  BY <1>1, <1>2
<1> HIDE DEF t
<1>4. IsSequence(t)
  BY <1>2, <1>3, SequenceIntro
<1> QED
  BY <1>4 DEF IsFile, t

LEMMA LoadShape ==
  ASSUME NEW f, IsFile(f), Loadable(f), NEW c, IsConfig(c), IsSequence(c.rules)
  PROVE  /\ IsConfig(Load(f, c))
         /\ NextIdentifier(RuleIds(Load(f, c).rules)) \in Generated
         /\ Issued(Load(f, c).rules, NextIdentifier(RuleIds(Load(f, c).rules)))
<1> DEFINE rules == Section(f.rules, Content(c).rules)
<1>1. IsSequence(rules)
  BY ContentShape DEF IsFile, Loadable, Section
<1>2. IsConfig(Load(f, c)) /\ Load(f, c).rules = Numbered(rules)
  BY DEF Load, IsConfig
<1> HIDE DEF rules
<1> QED
  BY <1>1, <1>2, NumberedIssued

LEMMA SeedShape ==
  /\ IsConfig(SeedConfig) /\ IsSequence(SeedConfig.rules)
  /\ NextIdentifier(RuleIds(SeedConfig.rules)) \in Generated
  /\ Issued(SeedConfig.rules, NextIdentifier(RuleIds(SeedConfig.rules)))
<1>1. IsConfig(SeedConfig) /\ SeedConfig.rules = Numbered(Seed.rules)
  BY ConfigAssumption DEF SeedConfig, IsConfig
<1> QED
  BY <1>1, ConfigAssumption, NumberedIssued DEF Issued

\* Whatever configuration the program starts with.
LEMMA BootShape ==
  ASSUME NEW f, IsFile(f), NEW c, Boots(f, c)
  PROVE  /\ IsConfig(c)
         /\ NextIdentifier(RuleIds(c.rules)) \in Generated
         /\ Issued(c.rules, NextIdentifier(RuleIds(c.rules)))
<1>1. c = SeedConfig \/ (Loadable(f) /\ c = Load(f, SeedConfig))
  BY DEF Boots
<1> QED
  BY <1>1, SeedShape, LoadShape

(***************************************************************************)
(* The invariant holds initially and every action keeps it.                *)
(***************************************************************************)
LEMMA InitIds == Init => IdsInv
<1> SUFFICES ASSUME Init PROVE IdsInv
  OBVIOUS
<1>1. PICK f \in FirstFiles :
        Boots(f, config) /\ file = IF FileBacked /\ f = NoFile THEN Content(config) ELSE f
  BY DEF Init
<1>2. IsFile(f)
  BY ConfigAssumption
<1>3. /\ IsConfig(config) /\ nextRuleID \in Generated /\ Issued(config.rules, nextRuleID)
      /\ nextRuleID = NextIdentifier(RuleIds(config.rules)) /\ baseline = config
  BY <1>1, <1>2, BootShape DEF Init
<1>4. IsFile(file)
  BY <1>1, <1>2, <1>3, ContentShape DEF Issued
<1> QED
  BY <1>3, <1>4 DEF IdsInv

\* An edit changes the working configuration only.
LEMMA EditedIds ==
  ASSUME IdsInv, NEW c, Edited(c), IsConfig(c), nextRuleID' \in Generated,
         Issued(c.rules, nextRuleID')
  PROVE  IdsInv'
<1>1. config' = c /\ UNCHANGED <<baseline, file>>
  BY DEF Edited
<1> QED
  BY <1>1 DEF IdsInv

LEMMA RuleEditKeepsIds ==
  ASSUME IdsInv, NEW rules, EditRules(rules), nextRuleID' \in Generated,
         Issued(rules, nextRuleID')
  PROVE  IdsInv'
<1> DEFINE c == [config EXCEPT !.rules = rules]
<1>1. IsConfig(c) /\ c.rules = rules
  BY DEF IdsInv, IsConfig
<1>2. Edited(c)
  BY DEF EditRules
<1> HIDE DEF c
<1> QED
  BY <1>1, <1>2, EditedIds

LEMMA EditKeepsIds ==
  ASSUME IdsInv, EditNext
  PROVE  IdsInv'
<1>1. ASSUME NEW x, UpdateHSMS(x) \/ UpdateDevice(x) PROVE IdsInv'
  <2>1. PICK c \in {[config EXCEPT !.hsms = x], [config EXCEPT !.device = x]} :
          Edited(c) /\ UNCHANGED nextRuleID
    BY <1>1 DEF UpdateHSMS, UpdateDevice, counterVars
  <2>2. IsConfig(c) /\ c.rules = config.rules
    BY DEF IdsInv, IsConfig
  <2> QED
    BY <2>1, <2>2, EditedIds DEF IdsInv
<1>2. CASE NewRule
  <2> DEFINE e == [id |-> nextRuleID, head |-> NewHead, copies |-> 0, actions |-> <<>>]
  <2>1. EditRules(Append(config.rules, e)) /\ nextRuleID' = nextRuleID + 1 /\ e.id = nextRuleID
    BY <1>2 DEF NewRule
  <2> HIDE DEF e
  <2>2. nextRuleID' \in Generated /\ Issued(Append(config.rules, e), nextRuleID')
    BY <2>1, AppendIssued DEF IdsInv, Generated
  <2> QED
    BY <2>1, <2>2, RuleEditKeepsIds
<1>3. ASSUME NEW i \in DOMAIN config.rules, NEW head, NEW actions, UpdateRule(i, head, actions)
      PROVE  IdsInv'
  <2>1. PICK e : /\ e.id = config.rules[i].id
                 /\ EditRules([config.rules EXCEPT ![i] = e])
                 /\ UNCHANGED nextRuleID
    BY <1>3 DEF UpdateRule, counterVars
  <2>2. nextRuleID' \in Generated /\ Issued([config.rules EXCEPT ![i] = e], nextRuleID')
    BY <2>1, ChangeIssued DEF IdsInv
  <2> QED
    BY <2>1, <2>2, RuleEditKeepsIds
<1>4. ASSUME NEW i \in DOMAIN config.rules, DuplicateRule(i) PROVE IdsInv'
  <2>1. PICK e : /\ e.id = nextRuleID
                 /\ EditRules(InsertAt(config.rules, i + 1, e))
                 /\ nextRuleID' = nextRuleID + 1
    BY <1>4 DEF DuplicateRule
  <2>2. nextRuleID' \in Generated /\ Issued(InsertAt(config.rules, i + 1, e), nextRuleID')
    BY <2>1, InsertIssued DEF IdsInv, Generated
  <2> QED
    BY <2>1, <2>2, RuleEditKeepsIds
<1>5. ASSUME NEW i \in DOMAIN config.rules, DeleteRule(i) PROVE IdsInv'
  <2>1. EditRules(RemoveAt(config.rules, i)) /\ UNCHANGED nextRuleID
    BY <1>5 DEF DeleteRule, counterVars
  <2>2. nextRuleID' \in Generated /\ Issued(RemoveAt(config.rules, i), nextRuleID')
    BY <2>1, RemoveIssued DEF IdsInv
  <2> QED
    BY <2>1, <2>2, RuleEditKeepsIds
<1>6. ASSUME NEW i \in DOMAIN config.rules, NEW direction, MoveRule(i, direction)
      PROVE  IdsInv'
  <2>1. PICK j \in DOMAIN config.rules :
          /\ j \in {i - 1, i + 1}
          /\ EditRules([config.rules EXCEPT ![i] = config.rules[j], ![j] = config.rules[i]])
          /\ UNCHANGED nextRuleID
    BY <1>6 DEF MoveRule, counterVars
  <2>2. i # j
    BY <2>1, SequenceLength DEF IdsInv, Issued
  <2>3. /\ nextRuleID' \in Generated
        /\ Issued([config.rules EXCEPT ![i] = config.rules[j], ![j] = config.rules[i]],
                  nextRuleID')
    BY <2>1, <2>2, SwapIssued DEF IdsInv
  <2> QED
    BY <2>1, <2>3, RuleEditKeepsIds
<1> QED
  BY <1>1, <1>2, <1>3, <1>4, <1>5, <1>6 DEF EditNext

LEMMA FileKeepsIds ==
  ASSUME IdsInv, FileNext \/ ClearLog
  PROVE  IdsInv'
<1>1. CASE Save
  <2>1. /\ UNCHANGED <<config, nextRuleID>> /\ baseline' = config
        /\ file' \in {file, Content(config)}
    BY <1>1 DEF Save, counterVars
  <2>2. /\ NextIdentifier(RuleIds(config.rules)) \in Generated
        /\ Issued(config.rules, NextIdentifier(RuleIds(config.rules)))
    BY NextIdentifierIssued DEF IdsInv, Generated
  <2>3. IsFile(Content(config))
    BY ContentShape DEF IdsInv, Issued
  <2> QED
    BY <2>1, <2>2, <2>3 DEF IdsInv
<1>2. CASE Reload
  <2> DEFINE c == IF FileBacked THEN Load(file, baseline) ELSE baseline
  <2>1. /\ config' = c /\ baseline' = c /\ UNCHANGED file
        /\ nextRuleID' = NextIdentifier(RuleIds(c.rules))
        /\ FileBacked => Loadable(file)
    BY <1>2 DEF Reload, ResetIDCounters
  <2>2. /\ IsConfig(c) /\ NextIdentifier(RuleIds(c.rules)) \in Generated
        /\ Issued(c.rules, NextIdentifier(RuleIds(c.rules)))
    <3>1. CASE FileBacked
      BY <2>1, <3>1, LoadShape DEF IdsInv, Issued
    <3>2. CASE ~FileBacked
      BY <3>2 DEF IdsInv
    <3> QED
      BY <3>1, <3>2
  <2> HIDE DEF c
  <2> QED
    BY <2>1, <2>2 DEF IdsInv
<1>3. CASE Restart
  <2>1. PICK c : /\ Boots(file, c) /\ config' = c /\ baseline' = c
                 /\ file' \in {file, Content(c)}
                 /\ nextRuleID' = NextIdentifier(RuleIds(c.rules))
    BY <1>3 DEF Restart, ResetIDCounters
  <2>2. /\ IsConfig(c) /\ NextIdentifier(RuleIds(c.rules)) \in Generated
        /\ Issued(c.rules, NextIdentifier(RuleIds(c.rules)))
    BY <2>1, BootShape DEF IdsInv
  <2>3. IsFile(Content(c))
    BY <2>2, ContentShape DEF Issued
  <2> QED
    BY <2>1, <2>2, <2>3 DEF IdsInv
<1>4. CASE ClearLog
  <2>1. UNCHANGED <<config, baseline, file>>
        /\ nextRuleID' = NextIdentifier(RuleIds(config.rules))
    BY <1>4 DEF ClearLog, ResetIDCounters
  <2>2. /\ NextIdentifier(RuleIds(config.rules)) \in Generated
        /\ Issued(config.rules, NextIdentifier(RuleIds(config.rules)))
    BY NextIdentifierIssued DEF IdsInv, Generated
  <2> QED
    BY <2>1, <2>2 DEF IdsInv
<1>5. CASE RefusesToStart
  BY <1>5 DEF RefusesToStart, counterVars, IdsInv
<1>6. ASSUME NEW f \in FileEdits, EditFile(f) PROVE IdsInv'
  <2>1. file' = f /\ UNCHANGED <<config, baseline, nextRuleID>>
    BY <1>6 DEF EditFile, counterVars
  <2>2. IsFile(f)
    BY ConfigAssumption
  <2> QED
    BY <2>1, <2>2 DEF IdsInv
<1> QED
  BY <1>1, <1>2, <1>3, <1>4, <1>5, <1>6 DEF FileNext

LEMMA RuntimeKeepsIds ==
  ASSUME IdsInv, RuntimeNext
  PROVE  IdsInv'
<1>1. UNCHANGED <<config, baseline, file, nextRuleID>>
  BY DEF RuntimeNext, SetRuntime, ToggleRuntime, SetRuntimeError, SetHSMSState,
         RecordAppliedHSMS, counterVars
<1> QED
  BY <1>1 DEF IdsInv

\* No two rules ever share an identifier, for every bound and every file: an
\* identifier that a deleted rule, a Reload or a cleared log set free is issued
\* again only when no rule carries it.
THEOREM RuleIdsAlwaysDistinct == Spec => []RuleIdsDistinct
<1>1. IdsInv /\ [Next]_configVars => IdsInv'
  <2>1. ASSUME IdsInv, UNCHANGED configVars PROVE IdsInv'
    BY <2>1 DEF IdsInv, configVars
  <2> QED
    BY <2>1, EditKeepsIds, FileKeepsIds, RuntimeKeepsIds DEF Next
<1>2. IdsInv => RuleIdsDistinct
  BY DEF IdsInv, Issued, IdsDistinct, RuleIdsDistinct
<1> QED
  BY <1>1, <1>2, InitIds, PTL DEF Spec

(***************************************************************************)
(* Places.  Below[i] is the set of the elements of I that come no later    *)
(* than i in a total order; their number is the place of i.                *)
(***************************************************************************)
TotalOrder(I, Below) ==
  /\ Below \in [I -> SUBSET I]
  /\ \A i \in I : i \in Below[i]
  /\ \A i, j \in I : i \in Below[j] \/ j \in Below[i]
  /\ \A i, j \in I : i \in Below[j] /\ j \in Below[i] => i = j
  /\ \A i, j \in I : j \in Below[i] => Below[j] \subseteq Below[i]

\* at[k] is the element whose place is k.
InPlace(I, Below, at) ==
  /\ at \in [1 .. Cardinality(I) -> I]
  /\ \A k \in 1 .. Cardinality(I) : Cardinality(Below[at[k]]) = k

LEMMA PlacesDistinct ==
  ASSUME NEW I, IsFiniteSet(I), NEW Below, TotalOrder(I, Below)
  PROVE  /\ \A i \in I : Cardinality(Below[i]) \in 1 .. Cardinality(I)
         /\ \A i, j \in I : j \in Below[i] <=> Cardinality(Below[j]) <= Cardinality(Below[i])
<1>1. \A i \in I : /\ IsFiniteSet(Below[i]) /\ Cardinality(Below[i]) \in Nat
                   /\ Cardinality(Below[i]) <= Cardinality(I)
                   /\ Cardinality(Below[i]) # 0
  <2> SUFFICES ASSUME NEW i \in I
               PROVE  /\ IsFiniteSet(Below[i]) /\ Cardinality(Below[i]) \in Nat
                      /\ Cardinality(Below[i]) <= Cardinality(I)
                      /\ Cardinality(Below[i]) # 0
    OBVIOUS
  <2>1. Below[i] \in SUBSET I /\ i \in Below[i]
    BY DEF TotalOrder
  <2>2. IsFiniteSet(Below[i]) /\ Cardinality(Below[i]) <= Cardinality(I)
    BY <2>1, FS_Subset
  <2> QED
    BY <2>1, <2>2, FS_CardinalityType, FS_EmptySet
<1>2. Cardinality(I) \in Nat
  BY FS_CardinalityType
<1>3. ASSUME NEW i \in I, NEW j \in I, j \in Below[i]
      PROVE  Cardinality(Below[j]) <= Cardinality(Below[i])
  <2>1. Below[j] \in SUBSET Below[i]
    BY <1>3 DEF TotalOrder
  <2> QED
    BY <1>1, <2>1, FS_Subset
<1>4. ASSUME NEW i \in I, NEW j \in I, j \notin Below[i]
      PROVE  Cardinality(Below[i]) < Cardinality(Below[j])
  <2>1. i \in Below[j] /\ Below[i] \in SUBSET Below[j] /\ j \in Below[j]
    BY <1>4 DEF TotalOrder
  <2>2. Below[i] # Below[j]
    BY <1>4, <2>1
  <2>3. Cardinality(Below[i]) <= Cardinality(Below[j])
        /\ Cardinality(Below[i]) # Cardinality(Below[j])
    BY <1>1, <2>1, <2>2, FS_Subset
  <2> QED
    BY <1>1, <2>3
<1>5. \A i, j \in I : j \in Below[i] <=> Cardinality(Below[j]) <= Cardinality(Below[i])
  BY <1>1, <1>3, <1>4
<1> QED
  BY <1>1, <1>2, <1>5

LEMMA PlacesTaken ==
  ASSUME NEW I, IsFiniteSet(I), NEW Below, TotalOrder(I, Below)
  PROVE  \A k \in 1 .. Cardinality(I) : \E i \in I : Cardinality(Below[i]) = k
<1> DEFINE N == Cardinality(I)
           place == [i \in I |-> Cardinality(Below[i])]
<1>1. N \in Nat
  BY FS_CardinalityType
<1>2. place \in [I -> 1 .. N]
  BY PlacesDistinct
<1>3. \A i, j \in I : i # j => place[i] # place[j]
  <2> SUFFICES ASSUME NEW i \in I, NEW j \in I, place[i] = place[j] PROVE i = j
    OBVIOUS
  <2>1. \A x, y \in I : y \in Below[x] <=> place[y] <= place[x]
    BY PlacesDistinct
  <2>2. place[i] \in Int
    BY <1>1, <1>2
  <2> HIDE DEF place
  <2>3. i \in Below[j] /\ j \in Below[i]
    BY <2>1, <2>2
  <2> QED
    BY <2>3 DEF TotalOrder
<1>4. place \in Injection(I, 1 .. N)
  BY <1>2, <1>3 DEF Injection, IsInjective
<1>5. IsFiniteSet(1 .. N) /\ Cardinality(1 .. N) = N
  BY <1>1, FS_Interval
<1>6. place \in Surjection(I, 1 .. N)
  <2> HIDE DEF place
  <2> QED
    BY <1>4, <1>5, FS_Injection
<1> QED
  BY <1>6 DEF Surjection

LEMMA Places ==
  ASSUME NEW I, IsFiniteSet(I), NEW Below, TotalOrder(I, Below),
         NEW at, InPlace(I, Below, at)
  PROVE  LET N == Cardinality(I)
         IN  /\ N \in Nat /\ at \in [1 .. N -> I]
             /\ \A i \in I : \E k \in 1 .. N : at[k] = i
             /\ \A k, l \in 1 .. N : at[k] = at[l] => k = l
             /\ \A k, l \in 1 .. N : k <= l <=> at[k] \in Below[at[l]]
<1> DEFINE N == Cardinality(I)
           place == [i \in I |-> Cardinality(Below[i])]
<1>1. N \in Nat
  BY FS_CardinalityType
<1>2. place \in [I -> 1 .. N]
  BY PlacesDistinct
<1>3. \A i, j \in I : j \in Below[i] <=> place[j] <= place[i]
  BY PlacesDistinct
<1>4. \A k \in 1 .. N : at[k] \in I /\ place[at[k]] = k
  BY DEF InPlace
<1> HIDE DEF place
<1>5. \A i \in I : \E k \in 1 .. N : at[k] = i
  <2> SUFFICES ASSUME NEW i \in I PROVE at[place[i]] = i
    BY <1>2
  <2>1. place[at[place[i]]] = place[i] /\ at[place[i]] \in I /\ place[i] \in Int
    BY <1>1, <1>2, <1>4
  <2>2. i \in Below[at[place[i]]] /\ at[place[i]] \in Below[i]
    BY <1>3, <2>1
  <2> QED
    BY <2>1, <2>2 DEF TotalOrder
<1>6. \A k, l \in 1 .. N : k <= l <=> at[k] \in Below[at[l]]
  BY <1>3, <1>4
<1>7. \A k, l \in 1 .. N : at[k] = at[l] => k = l
  BY <1>4
<1> QED
  BY <1>1, <1>5, <1>6, <1>7 DEF InPlace

(***************************************************************************)
(* The stable sort orders the positions I of a sequence by two integers d  *)
(* and r, and then by position.                                            *)
(***************************************************************************)
KeyBefore(d, r, i, j) == d[i] < d[j] \/ (d[i] = d[j] /\ r[i] < r[j])

SortBelow(I, d, r) ==
  [i \in I |-> {j \in I : KeyBefore(d, r, j, i) \/ (j <= i /\ ~KeyBefore(d, r, i, j))}]

LEMMA SortOrder ==
  ASSUME NEW I \in SUBSET Int, NEW d \in [I -> Int], NEW r \in [I -> Int]
  PROVE  TotalOrder(I, SortBelow(I, d, r))
<1> DEFINE B == SortBelow(I, d, r)
<1>1. \A i, j \in I : j \in B[i] <=> \/ d[j] < d[i]
                                     \/ d[j] = d[i] /\ r[j] < r[i]
                                     \/ d[j] = d[i] /\ r[j] = r[i] /\ j <= i
  <2> SUFFICES ASSUME NEW i \in I, NEW j \in I
               PROVE  j \in B[i] <=> \/ d[j] < d[i]
                                     \/ d[j] = d[i] /\ r[j] < r[i]
                                     \/ d[j] = d[i] /\ r[j] = r[i] /\ j <= i
    OBVIOUS
  <2>1. d[i] \in Int /\ d[j] \in Int /\ r[i] \in Int /\ r[j] \in Int
    OBVIOUS
  <2>2. j \in B[i] <=> KeyBefore(d, r, j, i) \/ (j <= i /\ ~KeyBefore(d, r, i, j))
    BY DEF SortBelow
  <2> QED
    BY <2>1, <2>2 DEF KeyBefore
<1>2. B \in [I -> SUBSET I]
  BY DEF SortBelow
<1>3. \A i \in I : d[i] \in Int /\ r[i] \in Int /\ i \in Int
  OBVIOUS
<1> HIDE DEF B
<1>4. ASSUME NEW i \in I PROVE i \in B[i]
  <2>1. d[i] \in Int /\ r[i] \in Int /\ i \in Int
    BY <1>3
  <2> QED
    BY <1>1, <2>1
<1>5. ASSUME NEW i \in I, NEW j \in I
      PROVE  /\ i \in B[j] \/ j \in B[i]
             /\ i \in B[j] /\ j \in B[i] => i = j
  <2>1. /\ d[i] \in Int /\ r[i] \in Int /\ i \in Int
        /\ d[j] \in Int /\ r[j] \in Int /\ j \in Int
    BY <1>3
  <2>2. j \in B[i] <=> \/ d[j] < d[i]
                       \/ d[j] = d[i] /\ r[j] < r[i]
                       \/ d[j] = d[i] /\ r[j] = r[i] /\ j <= i
    BY <1>1
  <2>3. i \in B[j] <=> \/ d[i] < d[j]
                       \/ d[i] = d[j] /\ r[i] < r[j]
                       \/ d[i] = d[j] /\ r[i] = r[j] /\ i <= j
    BY <1>1
  <2> QED
    BY <2>1, <2>2, <2>3
<1>6. ASSUME NEW i \in I, NEW j \in I, j \in B[i], NEW k \in I, k \in B[j]
      PROVE  k \in B[i]
  <2>1. /\ d[i] \in Int /\ r[i] \in Int /\ i \in Int
        /\ d[j] \in Int /\ r[j] \in Int /\ j \in Int
        /\ d[k] \in Int /\ r[k] \in Int /\ k \in Int
    BY <1>3
  <2>2. \/ d[j] < d[i]
        \/ d[j] = d[i] /\ r[j] < r[i]
        \/ d[j] = d[i] /\ r[j] = r[i] /\ j <= i
    BY <1>1, <1>6
  <2>3. \/ d[k] < d[j]
        \/ d[k] = d[j] /\ r[k] < r[j]
        \/ d[k] = d[j] /\ r[k] = r[j] /\ k <= j
    BY <1>1, <1>6
  <2>4. \/ d[k] < d[i]
        \/ d[k] = d[i] /\ r[k] < r[i]
        \/ d[k] = d[i] /\ r[k] = r[i] /\ k <= i
    BY <2>1, <2>2, <2>3
  <2> QED
    BY <1>1, <2>4
<1>7. \A i, j \in I : j \in B[i] => B[j] \subseteq B[i]
  BY <1>2, <1>6
<1> QED
  BY <1>2, <1>4, <1>5, <1>7 DEF TotalOrder, B

LEMMA SortedPlaces ==
  ASSUME NEW I \in SUBSET Int, IsFiniteSet(I), NEW d \in [I -> Int], NEW r \in [I -> Int],
         NEW at, InPlace(I, SortBelow(I, d, r), at)
  PROVE  \A k, l \in 1 .. Cardinality(I) : k <= l => d[at[k]] <= d[at[l]]
<1> DEFINE B == SortBelow(I, d, r)
<1>1. TotalOrder(I, B) /\ InPlace(I, B, at)
  BY SortOrder
<1>2. \A i, j \in I : j \in B[i] => d[j] <= d[i]
  <2> SUFFICES ASSUME NEW i \in I, NEW j \in I, j \in B[i] PROVE d[j] <= d[i]
    OBVIOUS
  <2>1. d[i] \in Int /\ d[j] \in Int
    OBVIOUS
  <2> QED
    BY <2>1 DEF B, SortBelow, KeyBefore
<1> HIDE DEF B
<1>3. /\ at \in [1 .. Cardinality(I) -> I]
      /\ \A k, l \in 1 .. Cardinality(I) : k <= l <=> at[k] \in B[at[l]]
  BY <1>1, Places
<1> QED
  BY <1>2, <1>3

LEMMA IdRankType ==
  ASSUME NEW n \in Int
  PROVE  IdRank(n) \in Int
  BY DEF IdRank, Generated

(***************************************************************************)
(* A sequence of actions is sorted by the order of the store.              *)
(***************************************************************************)
LEMMA ActionsSorted ==
  ASSUME NEW s \in Seq(Action)
  PROVE  \E at \in [DOMAIN s -> DOMAIN s] :
           /\ SortActions(s) = [k \in DOMAIN s |-> s[at[k]]]
           /\ \A i \in DOMAIN s : \E k \in DOMAIN s : at[k] = i
           /\ \A k, l \in DOMAIN s :
                k <= l => s[at[k]].payload.delay <= s[at[l]].payload.delay
<1> DEFINE I == DOMAIN s
           d == [i \in I |-> s[i].payload.delay]
           r == [i \in I |-> IdRank(s[i].id)]
           B == SortBelow(I, d, r)
           NotAfter(i) == {j \in I : \/ ActionBefore(s[j], s[i])
                                     \/ j <= i /\ ~ActionBefore(s[i], s[j])}
           at == [k \in I |-> CHOOSE i \in I : Cardinality(NotAfter(i)) = k]
<1>1. Len(s) \in Nat /\ I = 1 .. Len(s) /\ \A i \in I : s[i] \in Action
  BY LenProperties, ElementOfSeq
<1>2. /\ I \in SUBSET Int /\ IsFiniteSet(I)
      /\ Cardinality(I) = Len(s) /\ 1 .. Cardinality(I) = I
  BY <1>1, FS_Interval
<1>3. SortActions(s) = [k \in I |-> s[at[k]]]
  BY DEF SortActions, StableSort
<1>4. d \in [I -> Int] /\ r \in [I -> Int]
  BY <1>1, IdRankType DEF Action, Payload
<1>5. TotalOrder(I, B)
  <2>1. I \in SUBSET Int
    BY <1>2
  <2> HIDE DEF I, d, r
  <2> QED
    BY <1>4, <2>1, SortOrder
<1>6. \A i, j \in I : ActionBefore(s[i], s[j]) <=> KeyBefore(d, r, i, j)
  BY DEF ActionBefore, KeyBefore
<1>7. \A i \in I : B[i] = NotAfter(i)
  BY <1>6 DEF SortBelow
<1> HIDE DEF I, d, r, NotAfter, B
<1>8. \A k \in I : \E i \in I : Cardinality(NotAfter(i)) = k
  <2>1. \A k \in 1 .. Cardinality(I) : \E i \in I : Cardinality(B[i]) = k
    BY <1>2, <1>5, PlacesTaken
  <2> QED
    BY <1>2, <1>7, <2>1
<1>9. \A k \in I : at[k] \in I /\ Cardinality(NotAfter(at[k])) = k
  BY <1>8
<1>10. at \in [I -> I]
  BY <1>9
<1> HIDE DEF at
<1>11. InPlace(I, B, at)
  BY <1>2, <1>7, <1>9, <1>10 DEF InPlace
<1>12. \A i \in I : \E k \in 1 .. Cardinality(I) : at[k] = i
  BY <1>2, <1>5, <1>11, Places
<1>13. \A k, l \in I : k <= l => d[at[k]] <= d[at[l]]
  <2>1. \A k, l \in 1 .. Cardinality(I) : k <= l => d[at[k]] <= d[at[l]]
    <3>1. I \in SUBSET Int /\ IsFiniteSet(I) /\ InPlace(I, SortBelow(I, d, r), at)
      BY <1>2, <1>11 DEF B
    <3> QED
      BY <1>4, <3>1, SortedPlaces
  <2> QED
    BY <1>2, <2>1
<1>14. \A k, l \in I : k <= l => s[at[k]].payload.delay <= s[at[l]].payload.delay
  BY <1>10, <1>13 DEF d
<1> QED
  BY <1>2, <1>3, <1>10, <1>12, <1>14 DEF I

LEMMA LeastNatural ==
  ASSUME NEW T \in SUBSET Nat, T # {}
  PROVE  \E m \in T : \A n \in T : m <= n
<1>1. PICK m \in T : \A n \in T : ~(<<n, m>> \in OpToRel(<, Nat))
  BY NatLessThanWellFounded, WFMin, Zenon
<1>2. ASSUME NEW n \in T PROVE m <= n
  <2>1. ~(n < m)
    BY <1>1, Zenon DEF OpToRel
  <2> QED
    BY <2>1
<1> QED
  BY <1>2

LEMMA NaturalAbove ==
  ASSUME NEW b \in Nat, NEW x \in Int
  PROVE  \E c \in Nat : b <= c /\ x < c
<1>1. CASE x < b
  BY <1>1
<1>2. CASE ~(x < b)
  <2>1. x + 1 \in Nat /\ b <= x + 1 /\ x < x + 1
    BY <1>2
  <2> QED
    BY <2>1
<1> QED
  BY <1>1, <1>2

LEMMA FiniteIsBounded ==
  ASSUME NEW S \in SUBSET Int, IsFiniteSet(S)
  PROVE  \E b \in Nat : \A x \in S : x < b
<1>1. PICK n \in Nat : ExistsSurjection(1 .. n, S)
  BY FS_NatSurjection
<1>2. PICK f \in Surjection(1 .. n, S) : TRUE
  BY <1>1 DEF ExistsSurjection
<1>3. f \in [1 .. n -> S] /\ \A x \in S : \E k \in 1 .. n : f[k] = x
  BY <1>2 DEF Surjection
<1>a. \A k \in 1 .. n : f[k] \in Int
  BY <1>3
<1> DEFINE Bounded(k) == \E b \in Nat : \A j \in 1 .. k : f[j] < b
<1>4. Bounded(0)
  BY SMT
<1>5. ASSUME NEW m \in 1 .. n, Bounded(m - 1) PROVE Bounded(m)
  <2>1. PICK b \in Nat : \A j \in 1 .. m - 1 : f[j] < b
    BY <1>5
  <2>2. f[m] \in Int
    BY <1>a
  <2>3. PICK c \in Nat : b <= c /\ f[m] < c
    BY <2>2, NaturalAbove
  <2>4. ASSUME NEW j \in 1 .. m PROVE f[j] < c
    <3>1. f[j] \in Int
      BY <1>a
    <3>2. j = m \/ j \in 1 .. m - 1
      OBVIOUS
    <3> QED
      BY <2>1, <2>3, <3>1, <3>2
  <2> QED
    BY <2>4
<1> HIDE DEF Bounded
<1>6. ASSUME NEW T, T = {k \in 0 .. n : ~Bounded(k)} PROVE T = {}
  <2> SUFFICES ASSUME T # {} PROVE FALSE
    OBVIOUS
  <2>1. T \in SUBSET Nat
    BY <1>6
  <2>2. PICK m \in T : \A k \in T : m <= k
    BY <2>1, LeastNatural
  <2>3. m \in 1 .. n /\ ~Bounded(m)
    BY <1>4, <1>6
  <2>4. m - 1 \in 0 .. n /\ ~(m <= m - 1)
    BY <2>3
  <2>5. m - 1 \notin T
    BY <2>2, <2>4
  <2>6. Bounded(m - 1)
    BY <1>6, <2>4, <2>5
  <2> QED
    BY <1>5, <2>3, <2>6
<1>7. Bounded(n)
  <2> DEFINE T == {k \in 0 .. n : ~Bounded(k)}
  <2>1. T = {}
    BY <1>6
  <2>2. n \in 0 .. n
    OBVIOUS
  <2> QED
    BY <2>1, <2>2
<1>8. PICK b \in Nat : \A j \in 1 .. n : f[j] < b
  BY <1>7 DEF Bounded
<1> QED
  BY <1>3, <1>8

LEMMA FiniteRange ==
  ASSUME NEW S, IsFiniteSet(S), NEW f, DOMAIN f = S
  PROVE  IsFiniteSet({f[x] : x \in S})
<1> DEFINE T == {f[x] : x \in S}
           g == [x \in S |-> f[x]]
<1>1. g \in Surjection(S, T)
  BY DEF Surjection
<1> HIDE DEF g, T
<1>2. IsFiniteSet(T)
  BY <1>1, FS_Surjection
<1> QED
  BY <1>2 DEF T

\* The identifier that the store issues next, over any finite set.
LEMMA NextIdentifierOfFinite ==
  ASSUME NEW ids \in SUBSET Int, IsFiniteSet(ids)
  PROVE  NextIdentifier(ids) \in Generated /\ \A i \in ids : i < NextIdentifier(ids)
<1> DEFINE used == ids \cap Generated
<1>1. PICK b \in Nat : \A i \in ids : i < b
  BY FiniteIsBounded
<1>2. \A i \in used : i \in Generated /\ i < b
  BY <1>1
<1>3. NextIdentifier(ids) = NextIdentifier(used)
  <2>1. used \cap Generated = ids \cap Generated
    OBVIOUS
  <2> HIDE DEF used
  <2> QED
    BY <2>1, Zenon DEF NextIdentifier
<1>4. NextIdentifier(used) \in Generated /\ \A i \in used : i < NextIdentifier(used)
  <2> HIDE DEF used
  <2> QED
    BY <1>2, NextIdentifierAbove
<1>5. ASSUME NEW i \in ids PROVE i < NextIdentifier(ids)
  <2>1. CASE i \in Generated
    BY <1>3, <1>4, <2>1
  <2>2. CASE i \notin Generated
    BY <1>3, <1>4, <2>2 DEF Generated
  <2> QED
    BY <2>1, <2>2
<1> QED
  BY <1>3, <1>4, <1>5

(***************************************************************************)
(* The shape of the configuration, the baseline and the file.              *)
(***************************************************************************)
RulesTyped(rules) ==
  IsSequence(rules) /\ \A i \in DOMAIN rules : rules[i].actions \in Seq(Action)

ConfigTyped(c) ==
  IsConfig(c) /\ c.hsms \in Settings /\ c.device \in Devices /\ RulesTyped(c.rules)

ContentTyped(rules) ==
  IsSequence(rules) /\ \A i \in DOMAIN rules : rules[i].actions \in Seq(Payload)

TypesInv ==
  /\ runtime \in [listening : BOOLEAN, state : Statuses \cup {"NOT CONNECTED"}, error : Errors]
  /\ applied \in Conns /\ dirty \in BOOLEAN /\ restartRequired \in BOOLEAN /\ up \in BOOLEAN
  /\ ConfigTyped(config) /\ ConfigTyped(baseline)
  /\ IsFile(file) /\ FileTyped(file)
  /\ nextActionID \in Generated

LEMMA SequenceFinite ==
  ASSUME NEW s, IsSequence(s)
  PROVE  IsFiniteSet(DOMAIN s) /\ DOMAIN s \in SUBSET Int
<1>1. Len(s) \in Nat /\ DOMAIN s = 1 .. Len(s)
  BY SequenceLength
<1> QED
  BY <1>1, FS_Interval

LEMMA ActionIdsFinite ==
  ASSUME NEW rules, RulesTyped(rules)
  PROVE  ActionIds(rules) \in SUBSET Int /\ IsFiniteSet(ActionIds(rules))
<1> DEFINE D == DOMAIN rules
           ids == [i \in D |-> {rules[i].actions[j].id : j \in DOMAIN rules[i].actions}]
<1>1. IsFiniteSet(D)
  BY SequenceFinite DEF RulesTyped
<1>2. ASSUME NEW i \in D PROVE ids[i] \in SUBSET Int /\ IsFiniteSet(ids[i])
  <2> DEFINE s == rules[i].actions
             f == [j \in DOMAIN s |-> s[j].id]
  <2>1. s \in Seq(Action)
    BY DEF RulesTyped
  <2>2. \A j \in DOMAIN s : s[j] \in Action
    BY <2>1
  <2>3. IsFiniteSet(DOMAIN s)
    BY <2>1, SequenceOf, SequenceFinite
  <2>4. IsFiniteSet({f[j] : j \in DOMAIN s})
    <3>1. DOMAIN f = DOMAIN s
      OBVIOUS
    <3> HIDE DEF f, s
    <3> QED
      BY <2>3, <3>1, FiniteRange
  <2>5. ids[i] = {f[j] : j \in DOMAIN s}
    OBVIOUS
  <2> QED
    BY <2>2, <2>4, <2>5 DEF Action
<1>3. ActionIds(rules) = UNION {ids[i] : i \in D}
  BY DEF ActionIds
<1>4. DOMAIN ids = D
  OBVIOUS
<1> HIDE DEF ids, D
<1>5. IsFiniteSet({ids[i] : i \in D})
  BY <1>1, <1>4, FiniteRange
<1>6. \A T \in {ids[i] : i \in D} : IsFiniteSet(T)
  BY <1>2
<1>7. IsFiniteSet(UNION {ids[i] : i \in D})
  BY <1>5, <1>6, FS_UNION
<1>8. UNION {ids[i] : i \in D} \in SUBSET Int
  BY <1>2
<1> QED
  BY <1>3, <1>7, <1>8

LEMMA NextActionIdentifier ==
  ASSUME NEW rules, RulesTyped(rules)
  PROVE  NextIdentifier(ActionIds(rules)) \in Generated
<1> DEFINE ids == ActionIds(rules)
<1>1. ids \in SUBSET Int /\ IsFiniteSet(ids)
  BY ActionIdsFinite
<1> HIDE DEF ids
<1>2. NextIdentifier(ids) \in Generated
  BY <1>1, NextIdentifierOfFinite
<1> QED
  BY <1>2 DEF ids

LEMMA SortActionsTyped ==
  ASSUME NEW s \in Seq(Action)
  PROVE  SortActions(s) \in Seq(Action) /\ DOMAIN SortActions(s) = DOMAIN s
<1>1. PICK at \in [DOMAIN s -> DOMAIN s] : SortActions(s) = [k \in DOMAIN s |-> s[at[k]]]
  BY ActionsSorted
<1>2. Len(s) \in Nat /\ DOMAIN s = 1 .. Len(s) /\ \A k \in DOMAIN s : s[k] \in Action
  BY LenProperties, ElementOfSeq
<1>3. \A k \in DOMAIN s : s[at[k]] \in Action
  BY <1>2
<1>4. SortActions(s) \in [1 .. Len(s) -> Action]
  BY <1>1, <1>2, <1>3
<1> QED
  BY <1>1, <1>2, <1>4, IsASeq

LEMMA PayloadOfKind ==
  ASSUME NEW p \in Payload
  PROVE  [p EXCEPT !.kind = "send"] \in Payload
<1>1. /\ p = [delay |-> p.delay, kind |-> p.kind, body |-> p.body]
      /\ p.delay \in Int /\ p.body \in Bodies
  BY DEF Payload
<1>2. [p EXCEPT !.kind = "send"] = [delay |-> p.delay, kind |-> "send", body |-> p.body]
  BY <1>1
<1>3. [delay |-> p.delay, kind |-> "send", body |-> p.body] \in Payload
  BY <1>1, ConfigAssumption DEF Payload
<1> QED
  BY <1>2, <1>3

\* The actions before rule i of a file, their number, and what the actions of rule i
\* are before they are sorted.
Earlier(rules, i) == UNION {{k} \X DOMAIN rules[k].actions : k \in 1 .. i - 1}
Position(rules, i) == Cardinality(Earlier(rules, i))
Fresh(rules, i) ==
  [j \in DOMAIN rules[i].actions |->
    [id |-> Position(rules, i) + j,
     payload |-> [rules[i].actions[j] EXCEPT !.kind = "send"]]]

LEMMA NumberedIs ==
  ASSUME NEW rules
  PROVE  Numbered(rules) = [i \in DOMAIN rules |->
           [id |-> i, head |-> rules[i].head, copies |-> rules[i].copies,
            actions |-> SortActions(Fresh(rules, i))]]
  BY DEF Numbered, Fresh, Position, Earlier

LEMMA EarlierFinite ==
  ASSUME NEW rules, IsSequence(rules),
         \A k \in DOMAIN rules : IsSequence(rules[k].actions),
         NEW i \in 1 .. Len(rules) + 1
  PROVE  IsFiniteSet(Earlier(rules, i)) /\ Position(rules, i) \in Nat
<1> DEFINE f == [k \in 1 .. i - 1 |-> {k} \X DOMAIN rules[k].actions]
           S == {f[k] : k \in 1 .. i - 1}
<1>1. Len(rules) \in Nat /\ DOMAIN rules = 1 .. Len(rules)
  BY SequenceLength
<1>2. IsFiniteSet(1 .. i - 1) /\ DOMAIN f = 1 .. i - 1
  BY <1>1, FS_Interval
<1>3. \A k \in 1 .. i - 1 : IsFiniteSet(f[k])
  <2> SUFFICES ASSUME NEW k \in 1 .. i - 1 PROVE IsFiniteSet({k} \X DOMAIN rules[k].actions)
    OBVIOUS
  <2>1. k \in DOMAIN rules
    BY <1>1
  <2>2. IsFiniteSet(DOMAIN rules[k].actions)
    BY <2>1, SequenceFinite
  <2> QED
    BY <2>2, FS_Singleton, FS_Product
<1>4. Earlier(rules, i) = UNION S
  BY DEF Earlier
<1> HIDE DEF f
<1>5. IsFiniteSet(S)
  BY <1>2, FiniteRange
<1>6. \A T \in S : IsFiniteSet(T)
  BY <1>3
<1> HIDE DEF S
<1>7. IsFiniteSet(UNION S)
  BY <1>5, <1>6, FS_UNION
<1> QED
  BY <1>4, <1>7, FS_CardinalityType DEF Position

LEMMA FreshTyped ==
  ASSUME NEW rules, ContentTyped(rules), NEW i \in DOMAIN rules
  PROVE  Fresh(rules, i) \in Seq(Action) /\ Position(rules, i) \in Nat
<1> DEFINE D == DOMAIN rules
           Before == Position(rules, i)
           new == Fresh(rules, i)
<1>1. D \in SUBSET Int /\ D = 1 .. Len(rules) /\ Len(rules) \in Nat
  BY SequenceLength DEF ContentTyped
<1>2. new = [j \in DOMAIN rules[i].actions |->
              [id |-> Before + j, payload |-> [rules[i].actions[j] EXCEPT !.kind = "send"]]]
  BY DEF Fresh
<1>3. Before \in Nat
  <2>1. \A k \in D : IsSequence(rules[k].actions)
    BY SequenceOf DEF ContentTyped
  <2>2. i \in 1 .. Len(rules) + 1
    BY <1>1
  <2> QED
    BY <2>1, <2>2, EarlierFinite DEF ContentTyped
<1> HIDE DEF Before, new
<1>4. new \in Seq(Action)
  <2> DEFINE a == rules[i].actions
  <2>1. a \in Seq(Payload)
    BY DEF ContentTyped
  <2>2. Len(a) \in Nat /\ DOMAIN a = 1 .. Len(a) /\ \A j \in DOMAIN a : a[j] \in Payload
    BY <2>1, LenProperties, ElementOfSeq
  <2>3. \A j \in DOMAIN a : [a[j] EXCEPT !.kind = "send"] \in Payload
    BY <2>2, PayloadOfKind
  <2>4. \A j \in DOMAIN a : Before + j \in Int
    BY <1>3, <2>2
  <2>5. \A j \in DOMAIN a : new[j] \in Action
    BY <1>2, <2>3, <2>4 DEF Action
  <2>6. new \in [1 .. Len(a) -> Action]
    BY <1>2, <2>2, <2>5
  <2> QED
    BY <2>2, <2>6, IsASeq
<1> QED
  BY <1>3, <1>4 DEF Before, new

LEMMA NumberedTyped ==
  ASSUME NEW rules, ContentTyped(rules)
  PROVE  RulesTyped(Numbered(rules))
<1> DEFINE D == DOMAIN rules
           t == Numbered(rules)
<1>1. D = 1 .. Len(rules) /\ Len(rules) \in Nat
  BY SequenceLength DEF ContentTyped
<1>2. /\ t = [i \in D |-> t[i]]
      /\ \A i \in D : t[i].actions = SortActions(Fresh(rules, i))
  BY NumberedIs
<1> HIDE DEF t
<1>3. \A i \in D : t[i].actions \in Seq(Action)
  BY <1>2, FreshTyped, SortActionsTyped
<1>4. IsSequence(t) /\ DOMAIN t = D
  BY <1>1, <1>2, SequenceIntro
<1> QED
  BY <1>3, <1>4 DEF RulesTyped, t

LEMMA ContentIsTyped ==
  ASSUME NEW c, ConfigTyped(c)
  PROVE  ContentTyped(Content(c).rules) /\ IsFile(Content(c)) /\ FileTyped(Content(c))
<1> DEFINE t == Content(c).rules
<1>1. /\ t = [i \in DOMAIN c.rules |-> RuleContent(c.rules[i])]
      /\ Content(c).hsms = c.hsms /\ Content(c).device = c.device
  BY DEF Content, ConfigTyped, IsConfig
<1>2. IsSequence(t) /\ IsFile(Content(c))
  BY ContentShape DEF ConfigTyped, RulesTyped
<1>3. ASSUME NEW i \in DOMAIN c.rules PROVE t[i].actions \in Seq(Payload)
  <2> DEFINE a == c.rules[i].actions
  <2>1. t[i].actions = [j \in DOMAIN a |-> a[j].payload]
    BY <1>1 DEF RuleContent
  <2>2. a \in Seq(Action)
    BY DEF ConfigTyped, RulesTyped
  <2>3. Len(a) \in Nat /\ DOMAIN a = 1 .. Len(a) /\ \A j \in DOMAIN a : a[j] \in Action
    BY <2>2, LenProperties, ElementOfSeq
  <2> HIDE DEF a, t
  <2>4. t[i].actions \in [1 .. Len(a) -> Payload]
    BY <2>1, <2>3 DEF Action
  <2> QED
    BY <2>3, <2>4, IsASeq
<1>4. ContentTyped(t)
  <2>1. DOMAIN t = DOMAIN c.rules
    BY <1>1
  <2> QED
    BY <1>2, <1>3, <2>1 DEF ContentTyped
<1> HIDE DEF t
<1>5. FileTyped(Content(c))
  BY <1>1, <1>4 DEF FileTyped, ContentTyped, ConfigTyped, t
<1> QED
  BY <1>2, <1>4, <1>5 DEF t

LEMMA LoadTyped ==
  ASSUME NEW f, IsFile(f), FileTyped(f), Loadable(f), NEW c, ConfigTyped(c)
  PROVE  ConfigTyped(Load(f, c))
<1> DEFINE rules == Section(f.rules, Content(c).rules)
<1>1. ContentTyped(rules)
  BY ContentIsTyped DEF IsFile, FileTyped, Loadable, Section, ContentTyped
<1>2. /\ IsConfig(Load(f, c)) /\ Load(f, c).rules = Numbered(rules)
      /\ Load(f, c).hsms = Section(f.hsms, c.hsms)
      /\ Load(f, c).device = Section(f.device, c.device)
  BY DEF Load, IsConfig
<1>3. RulesTyped(Numbered(rules))
  <2> HIDE DEF rules
  <2> QED
    BY <1>1, NumberedTyped
<1>4. Section(f.hsms, c.hsms) \in Settings /\ Section(f.device, c.device) \in Devices
  BY DEF FileTyped, Loadable, Section, ConfigTyped
<1> QED
  BY <1>2, <1>3, <1>4 DEF ConfigTyped

LEMMA SeedTyped == ConfigTyped(SeedConfig)
<1>1. /\ IsConfig(SeedConfig) /\ SeedConfig.rules = Numbered(Seed.rules)
      /\ SeedConfig.hsms = Seed.hsms /\ SeedConfig.device = Seed.device
  BY ConfigAssumption DEF SeedConfig, IsConfig
<1>2. ContentTyped(Seed.rules) /\ Seed.hsms \in Settings /\ Seed.device \in Devices
  BY ConfigAssumption DEF FileTyped, ContentTyped
<1>3. RulesTyped(Numbered(Seed.rules))
  BY <1>2, NumberedTyped
<1> QED
  BY <1>1, <1>2, <1>3 DEF ConfigTyped

LEMMA BootTyped ==
  ASSUME NEW f, IsFile(f), FileTyped(f), NEW c, Boots(f, c)
  PROVE  ConfigTyped(c)
<1>1. c = SeedConfig \/ (Loadable(f) /\ c = Load(f, SeedConfig))
  BY DEF Boots
<1> QED
  BY <1>1, SeedTyped, LoadTyped

LEMMA InitTyped == Init => TypesInv
<1> SUFFICES ASSUME Init PROVE TypesInv
  OBVIOUS
<1>1. PICK f \in FirstFiles :
        Boots(f, config) /\ file = IF FileBacked /\ f = NoFile THEN Content(config) ELSE f
  BY DEF Init
<1>2. IsFile(f) /\ FileTyped(f)
  BY ConfigAssumption
<1>3. ConfigTyped(config)
  BY <1>1, <1>2, BootTyped
<1>4. IsFile(file) /\ FileTyped(file)
  BY <1>1, <1>2, <1>3, ContentIsTyped
<1>5. nextActionID \in Generated
  BY <1>3, NextActionIdentifier DEF Init, ConfigTyped
<1>6. config.hsms.conn \in Conns
  BY <1>3 DEF ConfigTyped, Settings
<1>7. runtime \in [listening : BOOLEAN, state : Statuses \cup {"NOT CONNECTED"}, error : Errors]
  BY ConfigAssumption DEF Init, Starting
<1> QED
  BY <1>3, <1>4, <1>5, <1>6, <1>7 DEF Init, TypesInv

(***************************************************************************)
(* The list operations keep the elements of a sequence in their set.       *)
(***************************************************************************)
LEMMA RemoveTyped ==
  ASSUME NEW S, NEW s \in Seq(S), NEW i \in DOMAIN s
  PROVE  RemoveAt(s, i) \in Seq(S)
<1>1. Len(s) \in Nat /\ i \in 1 .. Len(s) /\ \A k \in 1 .. Len(s) : s[k] \in S
  BY LenProperties, ElementOfSeq
<1>2. SubSeq(s, 1, i - 1) \in Seq(S)
  BY <1>1, SubSeqProperties
<1>3. SubSeq(s, i + 1, Len(s)) \in Seq(S)
  BY <1>1, SubSeqProperties
<1> QED
  BY <1>2, <1>3, ConcatProperties DEF RemoveAt

LEMMA InsertTyped ==
  ASSUME NEW S, NEW s \in Seq(S), NEW i \in DOMAIN s, NEW e \in S
  PROVE  InsertAt(s, i + 1, e) \in Seq(S)
<1>1. Len(s) \in Nat /\ i \in 1 .. Len(s) /\ \A k \in 1 .. Len(s) : s[k] \in S
  BY LenProperties, ElementOfSeq
<1>2. SubSeq(s, 1, (i + 1) - 1) \in Seq(S)
  BY <1>1, SubSeqProperties
<1>3. SubSeq(s, i + 1, Len(s)) \in Seq(S)
  BY <1>1, SubSeqProperties
<1>4. <<e>> \in Seq(S)
  OBVIOUS
<1>5. SubSeq(s, 1, (i + 1) - 1) \o <<e>> \in Seq(S)
  BY <1>2, <1>4, ConcatProperties
<1> QED
  BY <1>3, <1>5, ConcatProperties DEF InsertAt

LEMMA ChangeTyped ==
  ASSUME NEW S, NEW s \in Seq(S), NEW t, DOMAIN t = DOMAIN s,
         t = [k \in DOMAIN s |-> t[k]], \A k \in DOMAIN s : t[k] \in S
  PROVE  t \in Seq(S)
<1>1. Len(s) \in Nat /\ DOMAIN s = 1 .. Len(s)
  BY LenProperties
<1>2. t \in [1 .. Len(s) -> S]
  BY <1>1
<1> QED
  BY <1>1, <1>2, IsASeq

LEMMA ActionEditsTyped ==
  ASSUME NEW actions \in Seq(Action), NEW new, new \in ActionEdits(actions)
  PROVE  new \in Seq(Action)
<1>0. \A j \in DOMAIN actions : actions[j] \in Action
  BY ElementOfSeq, LenProperties
<1>1. CASE \E j \in DOMAIN actions : new = RemoveAt(actions, j)
  BY <1>1, RemoveTyped
<1>2. ASSUME NEW j \in DOMAIN actions, NEW p \in Payloads,
             new = [actions EXCEPT ![j].payload = p]
      PROVE  new \in Seq(Action)
  <2>1. p \in Payload
    BY ConfigAssumption
  <2>2. actions[j] = [id |-> actions[j].id, payload |-> actions[j].payload]
        /\ actions[j].id \in Int
    BY <1>0 DEF Action
  <2>3. [actions[j] EXCEPT !.payload = p] = [id |-> actions[j].id, payload |-> p]
    BY <2>2
  <2>4. [actions[j] EXCEPT !.payload = p] \in Action
    BY <2>1, <2>2, <2>3 DEF Action
  <2>5. DOMAIN new = DOMAIN actions /\ new = [k \in DOMAIN actions |-> new[k]]
    BY <1>2
  <2>6. \A k \in DOMAIN actions : new[k] \in Action
    BY <1>0, <1>2, <2>4
  <2> QED
    BY <2>5, <2>6, ChangeTyped
<1>3. ASSUME NEW c \in ClientIds, NEW p \in Payloads,
             new = Append(actions, [id |-> c, payload |-> p])
      PROVE  new \in Seq(Action)
  <2>1. [id |-> c, payload |-> p] \in Action
    BY ConfigAssumption DEF Action
  <2> QED
    BY <1>3, <2>1, AppendProperties
<1>4. \/ new = actions
      \/ new \in Fewer(actions)
      \/ new \in Changed(actions)
      \/ new \in More(actions)
  BY DEF ActionEdits
<1>5. CASE new \in Changed(actions)
  <2>1. PICK j \in DOMAIN actions :
               new \in {[actions EXCEPT ![j].payload = p] : p \in Payloads}
    BY <1>5 DEF Changed
  <2> QED
    BY <1>2, <2>1
<1>6. CASE new \in More(actions)
  <2>1. PICK c \in ClientIds :
               new \in {Append(actions, [id |-> c, payload |-> p]) : p \in Payloads}
    BY <1>6 DEF More
  <2> QED
    BY <1>3, <2>1
<1>7. CASE new \in Fewer(actions)
  BY <1>1, <1>7 DEF Fewer
<1> QED
  BY <1>4, <1>5, <1>6, <1>7

LEMMA EventToSendTyped ==
  ASSUME NEW a \in Action
  PROVE  EventToSend(a) \in Action
<1>1. /\ a = [id |-> a.id, payload |-> a.payload]
      /\ a.id \in Int /\ a.payload \in Payload
  BY DEF Action
<1>2. CASE a.payload.kind = "event"
  <2>1. [a EXCEPT !.payload.kind = "send"]
          = [id |-> a.id, payload |-> [a.payload EXCEPT !.kind = "send"]]
    BY <1>1
  <2>2. [a.payload EXCEPT !.kind = "send"] \in Payload
    BY <1>1, PayloadOfKind
  <2> QED
    BY <1>1, <1>2, <2>1, <2>2 DEF EventToSend, Action
<1>3. CASE a.payload.kind # "event"
  BY <1>3 DEF EventToSend
<1> QED
  BY <1>2, <1>3

(***************************************************************************)
(* Every action keeps the types.                                           *)
(***************************************************************************)
LEMMA RulesFrom ==
  ASSUME NEW S, \A r \in S : r.actions \in Seq(Action), NEW rules \in Seq(S)
  PROVE  RulesTyped(rules)
<1>1. IsSequence(rules)
  BY SequenceOf
<1>2. \A i \in DOMAIN rules : rules[i] \in S
  BY ElementOfSeq, LenProperties
<1> QED
  BY <1>1, <1>2 DEF RulesTyped

LEMMA ConfigShape ==
  ASSUME TypesInv
  PROVE  IsConfig(config)
  BY DEF TypesInv, ConfigTyped

LEMMA EditedTyped ==
  ASSUME TypesInv, NEW c, Edited(c), ConfigTyped(c), nextActionID' \in Generated
  PROVE  TypesInv'
<1>1. config' = c /\ UNCHANGED <<baseline, file, applied, runtime, up>>
      /\ dirty' \in BOOLEAN /\ restartRequired' \in BOOLEAN
  BY DEF Edited, UpdateRuntimeFlags
<1> QED
  BY <1>1 DEF TypesInv

LEMMA RuleEditTyped ==
  ASSUME TypesInv, NEW rules, EditRules(rules), RulesTyped(rules), nextActionID' \in Generated
  PROVE  TypesInv'
<1> DEFINE c == [config EXCEPT !.rules = rules]
<1>1. IsConfig(c) /\ c.rules = rules /\ c.hsms = config.hsms /\ c.device = config.device
  BY ConfigShape DEF IsConfig
<1>2. Edited(c)
  BY DEF EditRules
<1> HIDE DEF c
<1>3. ConfigTyped(c)
  BY <1>1 DEF TypesInv, ConfigTyped
<1> QED
  BY <1>2, <1>3, EditedTyped

LEMMA EditKeepsTypes ==
  ASSUME TypesInv, IdsInv, EditNext
  PROVE  TypesInv'
<1> DEFINE R == config.rules
           S == ToSet(R)
<1>1. R \in Seq(S) /\ \A i \in DOMAIN R : R[i] \in S /\ R[i].actions \in Seq(Action)
  BY DEF TypesInv, ConfigTyped, RulesTyped, IsSequence, ToSet
<1>2. \A r \in S : r.actions \in Seq(Action)
  BY <1>1 DEF ToSet
<1>3. nextActionID \in Generated
  BY DEF TypesInv
<1>4. ASSUME NEW c \in Conns, NEW t \in Tunings, UpdateHSMS([conn |-> c, tuning |-> t])
      PROVE  TypesInv'
  <2> DEFINE h == [conn |-> c, tuning |-> t]
             d == [config EXCEPT !.hsms = h]
  <2>1. Edited(d) /\ UNCHANGED nextActionID
    BY <1>4 DEF UpdateHSMS, counterVars
  <2>2. h \in Settings
    BY DEF Settings
  <2>3. IsConfig(d) /\ d.rules = config.rules /\ d.hsms = h /\ d.device = config.device
    BY ConfigShape DEF IsConfig
  <2> HIDE DEF d, h
  <2>4. ConfigTyped(d)
    BY <2>2, <2>3 DEF TypesInv, ConfigTyped
  <2> QED
    BY <1>3, <2>1, <2>4, EditedTyped
<1>5. ASSUME NEW x \in Devices, UpdateDevice(x) PROVE TypesInv'
  <2> DEFINE d == [config EXCEPT !.device = x]
  <2>1. Edited(d) /\ UNCHANGED nextActionID
    BY <1>5 DEF UpdateDevice, counterVars
  <2>2. IsConfig(d) /\ d.rules = config.rules /\ d.hsms = config.hsms /\ d.device = x
    BY ConfigShape DEF IsConfig
  <2> HIDE DEF d
  <2>3. ConfigTyped(d)
    BY <2>2 DEF TypesInv, ConfigTyped
  <2> QED
    BY <1>3, <2>1, <2>3, EditedTyped
<1>6. CASE NewRule
  <2> DEFINE e == [id |-> nextRuleID, head |-> NewHead, copies |-> 0, actions |-> <<>>]
             U == S \cup {e}
  <2>1. EditRules(Append(R, e)) /\ UNCHANGED nextActionID /\ e.actions \in Seq(Action)
    BY <1>6 DEF NewRule
  <2> HIDE DEF e, R, S
  <2>2. R \in Seq(U)
    BY <1>1, SeqMonotonic
  <2>3. Append(R, e) \in Seq(U)
    BY <2>2, AppendProperties
  <2>4. \A r \in U : r.actions \in Seq(Action)
    BY <1>2, <2>1
  <2>5. RulesTyped(Append(R, e))
    BY <2>3, <2>4, RulesFrom
  <2> QED
    BY <1>3, <2>1, <2>5, RuleEditTyped
<1>7. ASSUME NEW i \in DOMAIN R, NEW head, NEW actions \in ActionEdits(R[i].actions),
             UpdateRule(i, head, actions)
      PROVE  TypesInv'
  <2> DEFINE new == [j \in DOMAIN actions |-> EventToSend(actions[j])]
  <2>1. PICK e : /\ e.actions = SortActions(new)
                 /\ EditRules([R EXCEPT ![i] = e]) /\ UNCHANGED nextActionID
    BY <1>7 DEF UpdateRule, counterVars
  <2>2. actions \in Seq(Action)
    BY <1>1, ActionEditsTyped
  <2>3. new \in Seq(Action)
    <3>1. \A j \in DOMAIN actions : actions[j] \in Action
      BY <2>2, ElementOfSeq, LenProperties
    <3>2. \A j \in DOMAIN actions : new[j] \in Action
      BY <3>1, EventToSendTyped
    <3>3. DOMAIN new = DOMAIN actions /\ new = [j \in DOMAIN actions |-> new[j]]
      OBVIOUS
    <3> HIDE DEF new
    <3> QED
      BY <2>2, <3>2, <3>3, ChangeTyped
  <2> HIDE DEF new
  <2>4. e.actions \in Seq(Action)
    BY <2>1, <2>3, SortActionsTyped
  <2> DEFINE t == [R EXCEPT ![i] = e]
             U == S \cup {e}
  <2>5. DOMAIN t = DOMAIN R /\ t = [k \in DOMAIN R |-> t[k]]
        /\ \A k \in DOMAIN R : t[k] \in U
    BY <1>1
  <2>6. EditRules(t)
    BY <2>1
  <2> HIDE DEF t, R, S
  <2>7. R \in Seq(U)
    BY <1>1, SeqMonotonic
  <2>8. \A r \in U : r.actions \in Seq(Action)
    BY <1>2, <2>4
  <2> HIDE DEF U
  <2>9. t \in Seq(U)
    BY <2>5, <2>7, ChangeTyped
  <2>10. RulesTyped(t)
    BY <2>8, <2>9, RulesFrom
  <2> QED
    BY <1>3, <2>1, <2>6, <2>10, RuleEditTyped
<1>8. ASSUME NEW i \in DOMAIN R, DuplicateRule(i) PROVE TypesInv'
  <2> DEFINE a == R[i].actions
             new == [j \in DOMAIN a |-> [a[j] EXCEPT !.id = nextActionID + j - 1]]
  <2>1. PICK e : /\ e.actions = new
                 /\ EditRules(InsertAt(R, i + 1, e))
                 /\ nextActionID' = nextActionID + Len(a)
    BY <1>8 DEF DuplicateRule
  <2>2. a \in Seq(Action) /\ Len(a) \in Nat /\ DOMAIN a = 1 .. Len(a)
        /\ \A j \in DOMAIN a : a[j] \in Action
    BY <1>1, ElementOfSeq, LenProperties
  <2>3. nextActionID' \in Generated
    BY <1>3, <2>1, <2>2 DEF Generated
  <2>4. ASSUME NEW j \in DOMAIN a PROVE new[j] \in Action
    <3>1. a[j] = [id |-> a[j].id, payload |-> a[j].payload] /\ a[j].payload \in Payload
      BY <2>2 DEF Action
    <3>2. new[j] = [id |-> nextActionID + j - 1, payload |-> a[j].payload]
      BY <3>1
    <3>3. nextActionID + j - 1 \in Int
      BY <1>3, <2>2 DEF Generated
    <3> QED
      BY <3>1, <3>2, <3>3 DEF Action
  <2>5. DOMAIN new = DOMAIN a /\ new = [j \in DOMAIN a |-> new[j]]
    OBVIOUS
  <2> HIDE DEF new
  <2>6. e.actions \in Seq(Action)
    <3> HIDE DEF a
    <3> QED
      BY <2>1, <2>2, <2>4, <2>5, ChangeTyped
  <2> DEFINE U == S \cup {e}
  <2> HIDE DEF a, R, S
  <2>7. R \in Seq(U) /\ e \in U
    BY <1>1, SeqMonotonic
  <2>8. \A r \in U : r.actions \in Seq(Action)
    BY <1>2, <2>6
  <2> HIDE DEF U
  <2>9. InsertAt(R, i + 1, e) \in Seq(U)
    BY <2>7, InsertTyped
  <2>10. RulesTyped(InsertAt(R, i + 1, e))
    BY <2>8, <2>9, RulesFrom
  <2> QED
    BY <2>1, <2>3, <2>10, RuleEditTyped
<1>9. ASSUME NEW i \in DOMAIN R, DeleteRule(i) PROVE TypesInv'
  <2>1. EditRules(RemoveAt(R, i)) /\ UNCHANGED nextActionID
    BY <1>9 DEF DeleteRule, counterVars
  <2> HIDE DEF R, S
  <2>2. RulesTyped(RemoveAt(R, i))
    BY <1>1, <1>2, RemoveTyped, RulesFrom
  <2> QED
    BY <1>3, <2>1, <2>2, RuleEditTyped
<1>10. ASSUME NEW i \in DOMAIN R, NEW direction, MoveRule(i, direction) PROVE TypesInv'
  <2>1. PICK j \in DOMAIN R : /\ EditRules([R EXCEPT ![i] = R[j], ![j] = R[i]])
                              /\ UNCHANGED nextActionID
    BY <1>10 DEF MoveRule, counterVars
  <2> DEFINE t == [R EXCEPT ![i] = R[j], ![j] = R[i]]
  <2>2. DOMAIN t = DOMAIN R /\ t = [k \in DOMAIN R |-> t[k]]
        /\ \A k \in DOMAIN R : t[k] \in S
    BY <1>1
  <2>3. EditRules(t)
    BY <2>1
  <2> HIDE DEF t, R, S
  <2>4. t \in Seq(S)
    BY <1>1, <2>2, ChangeTyped
  <2>5. RulesTyped(t)
    BY <1>2, <2>4, RulesFrom
  <2> QED
    BY <1>3, <2>1, <2>3, <2>5, RuleEditTyped
<1> QED
  BY <1>4, <1>5, <1>6, <1>7, <1>8, <1>9, <1>10 DEF EditNext

LEMMA FileKeepsTypes ==
  ASSUME TypesInv, FileNext \/ ClearLog
  PROVE  TypesInv'
<1> USE DEF TypesInv
<1>1. CASE Save
  <2>1. /\ UNCHANGED <<config, applied, runtime, up, nextActionID>> /\ baseline' = config
        /\ file' \in {file, Content(config)}
        /\ dirty' \in BOOLEAN /\ restartRequired' \in BOOLEAN
    BY <1>1 DEF Save, counterVars, UpdateRuntimeFlags
  <2>2. IsFile(Content(config)) /\ FileTyped(Content(config))
    BY ContentIsTyped
  <2> QED
    BY <2>1, <2>2
<1>2. CASE Reload
  <2> DEFINE c == IF FileBacked THEN Load(file, baseline) ELSE baseline
  <2>1. /\ config' = c /\ baseline' = c /\ UNCHANGED <<file, applied, runtime, up>>
        /\ nextActionID' = NextIdentifier(ActionIds(c.rules))
        /\ FileBacked => Loadable(file)
        /\ dirty' \in BOOLEAN /\ restartRequired' \in BOOLEAN
    BY <1>2 DEF Reload, ResetIDCounters, UpdateRuntimeFlags
  <2>2. ConfigTyped(c)
    BY <2>1, LoadTyped
  <2> HIDE DEF c
  <2>3. NextIdentifier(ActionIds(c.rules)) \in Generated
    BY <2>2, NextActionIdentifier DEF ConfigTyped
  <2> QED
    BY <2>1, <2>2, <2>3
<1>3. CASE Restart
  <2>1. PICK c : /\ Boots(file, c) /\ config' = c /\ baseline' = c
                 /\ file' \in {file, Content(c)}
                 /\ applied' = c.hsms.conn /\ runtime' = Starting /\ up' = TRUE
                 /\ nextActionID' = NextIdentifier(ActionIds(c.rules))
                 /\ dirty' \in BOOLEAN /\ restartRequired' \in BOOLEAN
    BY <1>3 DEF Restart, ResetIDCounters, UpdateRuntimeFlags
  <2>2. ConfigTyped(c)
    BY <2>1, BootTyped
  <2>3. IsFile(Content(c)) /\ FileTyped(Content(c))
    BY <2>2, ContentIsTyped
  <2>4. NextIdentifier(ActionIds(c.rules)) \in Generated /\ c.hsms.conn \in Conns
    BY <2>2, NextActionIdentifier DEF ConfigTyped, Settings
  <2>5. Starting
          \in [listening : BOOLEAN, state : Statuses \cup {"NOT CONNECTED"}, error : Errors]
    BY ConfigAssumption DEF Starting
  <2> QED
    BY <2>1, <2>2, <2>3, <2>4, <2>5
<1>4. CASE ClearLog
  <2>1. UNCHANGED <<config, baseline, file, applied, runtime, dirty, restartRequired, up>>
        /\ nextActionID' = NextIdentifier(ActionIds(config.rules))
    BY <1>4 DEF ClearLog, ResetIDCounters
  <2>2. NextIdentifier(ActionIds(config.rules)) \in Generated
    BY NextActionIdentifier DEF ConfigTyped
  <2> QED
    BY <2>1, <2>2
<1>5. CASE RefusesToStart
  BY <1>5 DEF RefusesToStart, counterVars
<1>6. ASSUME NEW f \in FileEdits, EditFile(f) PROVE TypesInv'
  <2>1. file' = f
        /\ UNCHANGED <<config, baseline, applied, runtime, dirty, restartRequired, up,
                       nextActionID>>
    BY <1>6 DEF EditFile, counterVars
  <2>2. IsFile(f) /\ FileTyped(f)
    BY ConfigAssumption
  <2> QED
    BY <2>1, <2>2
<1> QED
  BY <1>1, <1>2, <1>3, <1>4, <1>5, <1>6 DEF FileNext

LEMMA RuntimeKeepsTypes ==
  ASSUME TypesInv, RuntimeNext
  PROVE  TypesInv'
<1> DEFINE Shapes == [listening : BOOLEAN, state : Statuses \cup {"NOT CONNECTED"},
                      error : Errors]
<1>1. /\ UNCHANGED <<config, baseline, file, nextActionID, up>>
      /\ dirty' \in BOOLEAN /\ restartRequired' \in BOOLEAN
  BY DEF RuntimeNext, SetRuntime, ToggleRuntime, SetRuntimeError, SetHSMSState,
         RecordAppliedHSMS, counterVars, UpdateRuntimeFlags, TypesInv
<1>2. /\ runtime = [listening |-> runtime.listening, state |-> runtime.state,
                    error |-> runtime.error]
      /\ runtime.listening \in BOOLEAN /\ runtime.state \in Statuses \cup {"NOT CONNECTED"}
      /\ runtime.error \in Errors /\ applied \in Conns
  BY DEF TypesInv
<1>3. runtime' \in Shapes /\ applied' \in Conns
  <2>1. ASSUME NEW l \in BOOLEAN, NEW w \in Statuses \cup {"NOT CONNECTED"}, SetRuntime(l, w)
        PROVE  runtime' \in Shapes /\ applied' \in Conns
    BY <1>2, <2>1, ConfigAssumption DEF SetRuntime
  <2>2. ASSUME NEW e \in Errors, SetRuntimeError(e)
        PROVE  runtime' \in Shapes /\ applied' \in Conns
    <3>1. runtime' = [listening |-> runtime.listening, state |-> runtime.state, error |-> e]
          /\ applied' = applied
      BY <1>2, <2>2 DEF SetRuntimeError
    <3> QED
      BY <1>2, <3>1
  <2>3. ASSUME NEW w \in Statuses, SetHSMSState(w)
        PROVE  runtime' \in Shapes /\ applied' \in Conns
    <3>1. runtime' = [listening |-> runtime.listening, state |-> w, error |-> runtime.error]
          /\ applied' = applied
      BY <1>2, <2>3 DEF SetHSMSState
    <3> QED
      BY <1>2, <3>1
  <2>4. ASSUME NEW c \in Conns, RecordAppliedHSMS(c)
        PROVE  runtime' \in Shapes /\ applied' \in Conns
    BY <1>2, <2>4 DEF RecordAppliedHSMS
  <2>5. ASSUME ToggleRuntime PROVE runtime' \in Shapes /\ applied' \in Conns
    BY <1>2, <2>1, <2>5 DEF ToggleRuntime
  <2> QED
    BY <2>1, <2>2, <2>3, <2>4, <2>5 DEF RuntimeNext
<1> QED
  BY <1>1, <1>3 DEF TypesInv

ShapeInv == IdsInv /\ TypesInv

LEMMA ShapeKept == ShapeInv /\ [Next]_configVars => ShapeInv'
<1> SUFFICES ASSUME ShapeInv, [Next]_configVars PROVE ShapeInv'
  OBVIOUS
<1>1. IdsInv /\ TypesInv
  BY DEF ShapeInv
<1>2. CASE EditNext
  BY <1>1, <1>2, EditKeepsIds, EditKeepsTypes DEF ShapeInv
<1>3. CASE FileNext \/ ClearLog
  BY <1>1, <1>3, FileKeepsIds, FileKeepsTypes DEF ShapeInv
<1>4. CASE RuntimeNext
  BY <1>1, <1>4, RuntimeKeepsIds, RuntimeKeepsTypes DEF ShapeInv
<1>5. CASE UNCHANGED configVars
  <2>1. IdsInv'
    BY <1>1, <1>5 DEF IdsInv, configVars
  <2>2. TypesInv'
    BY <1>1, <1>5 DEF TypesInv, configVars
  <2> QED
    BY <2>1, <2>2 DEF ShapeInv
<1> QED
  BY <1>2, <1>3, <1>4, <1>5 DEF Next

\* Every variable keeps its shape, whatever file is loaded.
THEOREM ConfigTypes == Spec => []TypeOK
<1>1. Init => ShapeInv
  BY InitIds, InitTyped DEF ShapeInv
<1>2. ShapeInv => TypeOK
  <2> SUFFICES ASSUME ShapeInv PROVE TypeOK
    OBVIOUS
  <2>1. /\ runtime.listening \in BOOLEAN /\ runtime.error \in Errors
        /\ runtime.state \in Statuses \cup {"NOT CONNECTED"}
        /\ applied \in Conns /\ dirty \in BOOLEAN /\ restartRequired \in BOOLEAN
        /\ up \in BOOLEAN
    BY DEF ShapeInv, TypesInv
  <2>2. config.hsms \in [conn : Conns, tuning : Tunings] /\ config.device \in Devices
    BY DEF ShapeInv, TypesInv, ConfigTyped, Settings
  <2>3. nextRuleID \in Nat \ {0} /\ nextActionID \in Nat \ {0}
    BY DEF ShapeInv, TypesInv, IdsInv, Generated
  <2> QED
    BY <2>1, <2>2, <2>3 DEF TypeOK
<1> QED
  BY <1>1, <1>2, ShapeKept, PTL DEF Spec

(***************************************************************************)
(* A configuration that is shown as clean is what a restart loads.  Two    *)
(* things make it so: the actions of every rule, of the working            *)
(* configuration as of the baseline, are already in the order the loader   *)
(* puts them in; and the baseline is what the file loads as.  The first    *)
(* needs the numbers that the loader gives out to sort, as strings, the    *)
(* way they were given.                                                    *)
(***************************************************************************)
\* The actions of a rule come by delay, and none has the legacy type.
ActionsSettled(actions) ==
  /\ \A j, k \in DOMAIN actions :
       j <= k => actions[j].payload.delay <= actions[k].payload.delay
  /\ \A j \in DOMAIN actions : actions[j].payload.kind # "event"

RulesSettled(rules) == \A i \in DOMAIN rules : ActionsSettled(rules[i].actions)

\* Every action has a type that the program knows.
KnownKinds(c) ==
  \A i \in DOMAIN c.rules : \A j \in DOMAIN c.rules[i].actions :
    c.rules[i].actions[j].payload.kind \in {"send", "event"}

\* The numbers that loading gives to the actions of one rule are in order as strings.
NumbersInOrder(c) ==
  \A i \in DOMAIN c.rules : \A j, k \in DOMAIN c.rules[i].actions :
    j < k => IdRank(Position(c.rules, i) + j) < IdRank(Position(c.rules, i) + k)

Survives(c) == KnownKinds(c) /\ NumbersInOrder(c)

\* The special files, and the mark of a section that is not there, are none of the
\* things they stand apart from.
MarksApart ==
  /\ Kept \notin Settings \cup Devices
  /\ \A s : IsSequence(s) => s # Kept
  /\ \A c : IsConfig(c) => c \notin {NoFile, Garbled, Unreadable}

\* What a restart would start with is, but for identifiers, c.
FileHolds(f, c) ==
  \/ Loadable(f) /\ Same(c, Load(f, SeedConfig))
  \/ f = Unreadable /\ Same(c, SeedConfig)

FileInv ==
  /\ RulesSettled(config.rules)
  /\ RulesSettled(baseline.rules) /\ Survives(baseline)
  /\ FileBacked /\ file \notin FileEdits => FileHolds(file, baseline)

LEMMA BeforeIsStrict ==
  ASSUME NEW a \in Action, NEW b \in Action
  PROVE  ~ActionBefore(a, a) /\ (ActionBefore(a, b) => ~ActionBefore(b, a))
<1>1. a.payload.delay \in Int /\ b.payload.delay \in Int
  BY DEF Action, Payload
<1>2. IdRank(a.id) \in Int /\ IdRank(b.id) \in Int
  BY IdRankType DEF Action
<1> QED
  BY <1>1, <1>2 DEF ActionBefore

LEMMA UpTo ==
  ASSUME NEW n \in Nat, NEW i \in 1 .. n, NEW P, P \subseteq 1 .. n,
         \A j \in 1 .. n : j \in P <=> j <= i
  PROVE  P = 1 .. i
<1>1. ASSUME NEW j \in P PROVE j \in 1 .. i
  <2>1. j \in 1 .. n
    OBVIOUS
  <2> QED
    BY <2>1
<1>2. ASSUME NEW j \in 1 .. i PROVE j \in P
  <2>1. j \in 1 .. n
    OBVIOUS
  <2> QED
    BY <2>1
<1> QED
  BY <1>1, <1>2

\* Sorting leaves alone what is in order.
LEMMA SortedIsFixed ==
  ASSUME NEW s \in Seq(Action),
         \A j, k \in DOMAIN s : j < k => ActionBefore(s[j], s[k])
  PROVE  SortActions(s) = s
<1> DEFINE I == DOMAIN s
           Place(i) == Cardinality({j \in I : \/ ActionBefore(s[j], s[i])
                                              \/ j <= i /\ ~ActionBefore(s[i], s[j])})
<1>1. Len(s) \in Nat /\ I = 1 .. Len(s) /\ (\A i \in I : s[i] \in Action)
  BY LenProperties, ElementOfSeq
<1>2. SortActions(s) = [k \in I |-> s[CHOOSE i \in I : Place(i) = k]]
  BY DEF SortActions, StableSort
<1>3. ASSUME NEW i \in I PROVE Place(i) = i
  <2> DEFINE P == {j \in I : ActionBefore(s[j], s[i]) \/ (j <= i /\ ~ActionBefore(s[i], s[j]))}
  <2>1. ASSUME NEW j \in I PROVE j \in P <=> j <= i
    <3>1. i \in Nat /\ j \in Nat
      BY <1>1
    <3>2. s[i] \in Action /\ s[j] \in Action
      BY <1>1
    <3>3. /\ ~ActionBefore(s[i], s[i])
          /\ ActionBefore(s[i], s[j]) => ~ActionBefore(s[j], s[i])
      BY <3>2, BeforeIsStrict
    <3>4. CASE j < i
      BY <3>1, <3>4
    <3>5. CASE j = i
      BY <3>1, <3>3, <3>5
    <3>6. CASE i < j
      <4>1. ActionBefore(s[i], s[j])
        BY <3>6
      <4> QED
        BY <3>1, <3>3, <3>6, <4>1
    <3> QED
      BY <3>1, <3>4, <3>5, <3>6
  <2>2. P \subseteq I
    OBVIOUS
  <2>3. Place(i) = Cardinality(P)
    OBVIOUS
  <2> HIDE DEF P, Place
  <2>4. P = 1 .. i
    <3>1. i \in 1 .. Len(s) /\ (\A j \in 1 .. Len(s) : j \in P <=> j <= i)
      BY <1>1, <2>1
    <3>2. P \subseteq 1 .. Len(s)
      BY <1>1, <2>2
    <3> QED
      BY <1>1, <3>1, <3>2, UpTo
  <2>5. Cardinality(1 .. i) = i
    BY <1>1, FS_Interval
  <2> QED
    BY <2>3, <2>4, <2>5
<1> HIDE DEF Place
<1>4. ASSUME NEW k \in I PROVE (CHOOSE i \in I : Place(i) = k) = k
  BY <1>3
<1>5. SortActions(s) = [k \in I |-> s[k]]
  BY <1>2, <1>4
<1>6. s = [k \in I |-> s[k]]
  BY <1>1, LenProperties
<1> QED
  BY <1>5, <1>6

\* Sorting puts the actions by delay and leaves their types alone.
LEMMA SortSettles ==
  ASSUME NEW s \in Seq(Action), \A j \in DOMAIN s : s[j].payload.kind # "event"
  PROVE  ActionsSettled(SortActions(s))
<1>1. PICK at \in [DOMAIN s -> DOMAIN s] :
        /\ SortActions(s) = [k \in DOMAIN s |-> s[at[k]]]
        /\ \A k, l \in DOMAIN s : k <= l => s[at[k]].payload.delay <= s[at[l]].payload.delay
  BY ActionsSorted
<1>2. \A k \in DOMAIN s : s[at[k]].payload.kind # "event"
  OBVIOUS
<1> QED
  BY <1>1, <1>2 DEF ActionsSettled

\* What is loaded is settled.
LEMMA NumberedSettles ==
  ASSUME NEW rules, ContentTyped(rules)
  PROVE  RulesSettled(Numbered(rules))
<1> SUFFICES ASSUME NEW i \in DOMAIN rules
             PROVE  ActionsSettled(SortActions(Fresh(rules, i)))
  BY NumberedIs DEF RulesSettled
<1>1. Fresh(rules, i) \in Seq(Action)
  BY FreshTyped
<1>2. ASSUME NEW j \in DOMAIN Fresh(rules, i)
      PROVE  Fresh(rules, i)[j].payload.kind # "event"
  <2>1. j \in DOMAIN rules[i].actions
        /\ Fresh(rules, i)[j].payload = [rules[i].actions[j] EXCEPT !.kind = "send"]
    BY DEF Fresh
  <2>2. rules[i].actions \in Seq(Payload)
    BY DEF ContentTyped
  <2>3. rules[i].actions[j] \in Payload
    BY <2>1, <2>2, ElementOfSeq, LenProperties
  <2>4. [rules[i].actions[j] EXCEPT !.kind = "send"].kind = "send"
    BY <2>3 DEF Payload
  <2> QED
    BY <2>1, <2>4
<1> QED
  BY <1>1, <1>2, SortSettles

LEMMA LoadSettles ==
  ASSUME NEW f, IsFile(f), FileTyped(f), Loadable(f), NEW c, ConfigTyped(c)
  PROVE  RulesSettled(Load(f, c).rules)
<1> DEFINE rules == Section(f.rules, Content(c).rules)
<1>1. ContentTyped(rules)
  BY ContentIsTyped DEF IsFile, FileTyped, Loadable, Section, ContentTyped
<1>2. Load(f, c).rules = Numbered(rules)
  BY DEF Load
<1> HIDE DEF rules
<1> QED
  BY <1>1, <1>2, NumberedSettles

LEMMA SeedSettles == RulesSettled(SeedConfig.rules)
<1>1. SeedConfig.rules = Numbered(Seed.rules)
  BY ConfigAssumption DEF SeedConfig, IsConfig
<1>2. ContentTyped(Seed.rules)
  BY ConfigAssumption DEF FileTyped, ContentTyped
<1> QED
  BY <1>1, <1>2, NumberedSettles

LEMMA BootSettles ==
  ASSUME NEW f, IsFile(f), FileTyped(f), NEW c, Boots(f, c)
  PROVE  RulesSettled(c.rules)
<1>1. c = SeedConfig \/ (Loadable(f) /\ c = Load(f, SeedConfig))
  BY DEF Boots
<1> QED
  BY <1>1, SeedSettles, SeedTyped, LoadSettles

(***************************************************************************)
(* What is saved loads as it was.                                          *)
(***************************************************************************)
LEMMA ContentRule ==
  ASSUME NEW c, ConfigTyped(c)
  PROVE  /\ Content(c) = [hsms |-> c.hsms, device |-> c.device,
                          rules |-> [i \in DOMAIN c.rules |-> RuleContent(c.rules[i])]]
         /\ DOMAIN Content(c).rules = DOMAIN c.rules
         /\ \A i \in DOMAIN c.rules :
              /\ Content(c).rules[i] = RuleContent(c.rules[i])
              /\ Content(c).rules[i].head = c.rules[i].head
              /\ Content(c).rules[i].copies = c.rules[i].copies
              /\ Content(c).rules[i].actions =
                   [j \in DOMAIN c.rules[i].actions |-> c.rules[i].actions[j].payload]
<1>1. Content(c) = [hsms |-> c.hsms, device |-> c.device,
                    rules |-> [i \in DOMAIN c.rules |-> RuleContent(c.rules[i])]]
  BY DEF Content, ConfigTyped, IsConfig
<1>2. Content(c).rules = [i \in DOMAIN c.rules |-> RuleContent(c.rules[i])]
  BY <1>1
<1> QED
  BY <1>1, <1>2 DEF RuleContent

LEMMA ContentPosition ==
  ASSUME NEW c, ConfigTyped(c), NEW i \in DOMAIN c.rules
  PROVE  Position(Content(c).rules, i) = Position(c.rules, i)
<1> DEFINE q == Content(c).rules
<1>1. Len(c.rules) \in Nat /\ DOMAIN c.rules = 1 .. Len(c.rules)
  BY SequenceLength DEF ConfigTyped, RulesTyped
<1>2. \A k \in 1 .. i - 1 : DOMAIN q[k].actions = DOMAIN c.rules[k].actions
  <2> SUFFICES ASSUME NEW k \in 1 .. i - 1
               PROVE  DOMAIN q[k].actions = DOMAIN c.rules[k].actions
    OBVIOUS
  <2>1. k \in DOMAIN c.rules
    BY <1>1
  <2>2. q[k].actions = [j \in DOMAIN c.rules[k].actions |-> c.rules[k].actions[j].payload]
    BY <2>1, ContentRule
  <2> HIDE DEF q
  <2> QED
    BY <2>2
<1> HIDE DEF q
<1>3. {{k} \X DOMAIN q[k].actions : k \in 1 .. i - 1}
        = {{k} \X DOMAIN c.rules[k].actions : k \in 1 .. i - 1}
  BY <1>2
<1> QED
  BY <1>3 DEF Position, Earlier, q

LEMMA SettledIsFresh ==
  ASSUME NEW c, ConfigTyped(c), RulesSettled(c.rules), Survives(c), NEW i \in DOMAIN c.rules
  PROVE  LET s == Fresh(Content(c).rules, i)
         IN  /\ SortActions(s) = s
             /\ DOMAIN s = DOMAIN c.rules[i].actions
             /\ \A j \in DOMAIN s : s[j].payload = c.rules[i].actions[j].payload
<1> DEFINE q == Content(c).rules
           a == c.rules[i].actions
           s == Fresh(q, i)
           p == Position(c.rules, i)
<1>1. q[i].actions = [j \in DOMAIN a |-> a[j].payload] /\ i \in DOMAIN q /\ ContentTyped(q)
  BY ContentRule, ContentIsTyped
<1>2. Position(q, i) = p
  BY ContentPosition
<1>3. a \in Seq(Action)
  BY DEF ConfigTyped, RulesTyped
<1>4. Len(a) \in Nat /\ DOMAIN a = 1 .. Len(a) /\ (\A j \in DOMAIN a : a[j] \in Action)
  BY <1>3, LenProperties, ElementOfSeq
<1>5. s \in Seq(Action) /\ p \in Nat
  BY <1>1, <1>2, FreshTyped
<1>6. /\ \A j, k \in DOMAIN a : j <= k => a[j].payload.delay <= a[k].payload.delay
      /\ \A j \in DOMAIN a : a[j].payload.kind # "event"
      /\ \A j \in DOMAIN a : a[j].payload.kind \in {"send", "event"}
      /\ \A j, k \in DOMAIN a : j < k => IdRank(p + j) < IdRank(p + k)
  BY DEF RulesSettled, ActionsSettled, Survives, KnownKinds, NumbersInOrder
<1>7. s = [j \in DOMAIN a |-> [id |-> p + j, payload |-> [a[j].payload EXCEPT !.kind = "send"]]]
  <2> HIDE DEF a, p, q
  <2> QED
    BY <1>1, <1>2 DEF Fresh, s
<1> HIDE DEF q, a, s, p
<1>8. ASSUME NEW j \in DOMAIN a
      PROVE  s[j].payload = a[j].payload /\ s[j].id = p + j
  <2>1. a[j].payload.kind = "send" /\ a[j].payload \in Payload
    BY <1>4, <1>6 DEF Action
  <2>2. [a[j].payload EXCEPT !.kind = "send"] = a[j].payload
    BY <2>1 DEF Payload
  <2> QED
    BY <1>7, <2>2
<1>9. DOMAIN s = DOMAIN a
  BY <1>7
<1>10. ASSUME NEW j \in DOMAIN s, NEW k \in DOMAIN s, j < k
       PROVE  ActionBefore(s[j], s[k])
  <2>1. a[j].payload.delay \in Int /\ a[k].payload.delay \in Int
    BY <1>4, <1>9 DEF Action, Payload
  <2>2. a[j].payload.delay <= a[k].payload.delay
    BY <1>4, <1>6, <1>9, <1>10
  <2>3. IdRank(p + j) < IdRank(p + k)
    BY <1>6, <1>9, <1>10
  <2>4. /\ s[j].payload.delay = a[j].payload.delay /\ s[k].payload.delay = a[k].payload.delay
        /\ s[j].id = p + j /\ s[k].id = p + k
    BY <1>8, <1>9
  <2> QED
    BY <2>1, <2>2, <2>3, <2>4 DEF ActionBefore
<1>11. SortActions(s) = s
  BY <1>5, <1>10, SortedIsFixed
<1> QED
  BY <1>8, <1>9, <1>11 DEF s, a, q

\* Numbering afresh the contents of a configuration that survives gives the same contents.
LEMMA NumberedContent ==
  ASSUME NEW c, ConfigTyped(c), RulesSettled(c.rules), Survives(c),
         NEW d, d = [hsms |-> c.hsms, device |-> c.device,
                     rules |-> Numbered(Content(c).rules)]
  PROVE  Same(c, d)
<1> DEFINE q == Content(c).rules
<1>1. d.rules = [i \in DOMAIN q |->
                  [id |-> i, head |-> q[i].head, copies |-> q[i].copies,
                   actions |-> SortActions(Fresh(q, i))]]
  BY NumberedIs
<1>2. Content(d) = [hsms |-> c.hsms, device |-> c.device,
                    rules |-> [i \in DOMAIN d.rules |-> RuleContent(d.rules[i])]]
  BY DEF Content
<1>3. /\ Content(c) = [hsms |-> c.hsms, device |-> c.device,
                       rules |-> [i \in DOMAIN c.rules |-> RuleContent(c.rules[i])]]
      /\ DOMAIN q = DOMAIN c.rules
      /\ \A i \in DOMAIN c.rules : q[i].head = c.rules[i].head
                                   /\ q[i].copies = c.rules[i].copies
  BY ContentRule
<1>4. ASSUME NEW i \in DOMAIN c.rules
      PROVE  RuleContent(d.rules[i]) = RuleContent(c.rules[i])
  <2> DEFINE s == Fresh(q, i)
  <2>1. /\ SortActions(s) = s
        /\ DOMAIN s = DOMAIN c.rules[i].actions
        /\ \A j \in DOMAIN s : s[j].payload = c.rules[i].actions[j].payload
    BY SettledIsFresh
  <2> HIDE DEF s
  <2>2. d.rules[i] = [id |-> i, head |-> c.rules[i].head, copies |-> c.rules[i].copies,
                      actions |-> s]
    BY <1>1, <1>3, <2>1 DEF s
  <2> QED
    BY <2>1, <2>2 DEF RuleContent
<1> HIDE DEF q
<1>5. DOMAIN d.rules = DOMAIN c.rules
  BY <1>1, <1>3
<1>6. [i \in DOMAIN d.rules |-> RuleContent(d.rules[i])]
        = [i \in DOMAIN c.rules |-> RuleContent(c.rules[i])]
  BY <1>4, <1>5
<1> QED
  BY <1>2, <1>3, <1>6 DEF Same

LEMMA SavedIsLoaded ==
  ASSUME MarksApart, NEW c, ConfigTyped(c), RulesSettled(c.rules), Survives(c)
  PROVE  FileHolds(Content(c), c)
<1> DEFINE f == Content(c)
<1>1. /\ f = [hsms |-> c.hsms, device |-> c.device, rules |-> f.rules]
      /\ f.hsms = c.hsms /\ f.device = c.device
      /\ DOMAIN f.rules = DOMAIN c.rules
      /\ \A i \in DOMAIN c.rules :
           f.rules[i].actions
             = [j \in DOMAIN c.rules[i].actions |-> c.rules[i].actions[j].payload]
  BY ContentRule
<1>2. IsSequence(f.rules)
  BY ContentIsTyped DEF ContentTyped
<1>3. f \notin {NoFile, Garbled, Unreadable}
  <2>1. IsConfig(f)
    BY <1>1 DEF IsConfig
  <2> HIDE DEF f
  <2> QED
    BY <2>1 DEF MarksApart
<1>4. f.hsms # Kept /\ f.device # Kept /\ f.rules # Kept
  BY <1>1, <1>2 DEF MarksApart, ConfigTyped
<1>5. \A i \in DOMAIN f.rules : \A j \in DOMAIN f.rules[i].actions :
        f.rules[i].actions[j].kind \in {"send", "event"}
  <2> HIDE DEF f
  <2> SUFFICES ASSUME NEW i \in DOMAIN c.rules, NEW j \in DOMAIN f.rules[i].actions
               PROVE  f.rules[i].actions[j].kind \in {"send", "event"}
    BY <1>1
  <2>1. f.rules[i].actions
          = [k \in DOMAIN c.rules[i].actions |-> c.rules[i].actions[k].payload]
    BY <1>1
  <2>2. j \in DOMAIN c.rules[i].actions
    BY <2>1
  <2>3. f.rules[i].actions[j] = c.rules[i].actions[j].payload
    BY <2>1, <2>2
  <2> QED
    BY <2>2, <2>3 DEF Survives, KnownKinds
<1>6. Loadable(f)
  BY <1>3, <1>5 DEF Loadable
<1>7. Load(f, SeedConfig) = [hsms |-> c.hsms, device |-> c.device, rules |-> Numbered(f.rules)]
  BY <1>1, <1>4 DEF Load, Section
<1>8. Same(c, Load(f, SeedConfig))
  BY <1>7, NumberedContent
<1> QED
  BY <1>6, <1>8 DEF FileHolds

\* Loading a file over a baseline that holds what the file gives changes nothing.
LEMMA ReloadedIsSame ==
  ASSUME NEW f, IsFile(f), FileTyped(f), Loadable(f),
         NEW b, ConfigTyped(b), RulesSettled(b.rules), Survives(b),
         Same(b, Load(f, SeedConfig))
  PROVE  Same(Load(f, b), Load(f, SeedConfig))
<1> DEFINE d == Load(f, SeedConfig)
           e == Load(f, b)
<1>1. /\ d = [hsms |-> Section(f.hsms, SeedConfig.hsms),
              device |-> Section(f.device, SeedConfig.device),
              rules |-> Numbered(Section(f.rules, Content(SeedConfig).rules))]
      /\ e = [hsms |-> Section(f.hsms, b.hsms), device |-> Section(f.device, b.device),
              rules |-> Numbered(Section(f.rules, Content(b).rules))]
  BY DEF Load
<1>2. ConfigTyped(d) /\ ConfigTyped(e)
  BY SeedTyped, LoadTyped
<1> HIDE DEF d, e
<1>3. Content(b) = Content(d)
  BY DEF Same, d
<1>4. /\ Content(b).hsms = b.hsms /\ Content(b).device = b.device
      /\ Content(d).hsms = d.hsms /\ Content(d).device = d.device
      /\ Content(e).hsms = e.hsms /\ Content(e).device = e.device
      /\ Content(d) = [hsms |-> d.hsms, device |-> d.device, rules |-> Content(d).rules]
      /\ Content(e) = [hsms |-> e.hsms, device |-> e.device, rules |-> Content(e).rules]
  BY <1>2, ContentRule
<1>5. e.hsms = d.hsms /\ e.device = d.device
  BY <1>1, <1>3, <1>4 DEF Section
<1>6. Content(e).rules = Content(d).rules
  <2>1. CASE f.rules = Kept
    <3> DEFINE g == [hsms |-> b.hsms, device |-> b.device, rules |-> Numbered(Content(b).rules)]
    <3>1. Content(b) = Content(g)
      BY NumberedContent DEF Same
    <3>2. e.rules = g.rules
      BY <1>1, <2>1 DEF Section
    <3>3. Content(e).rules = [i \in DOMAIN e.rules |-> RuleContent(e.rules[i])]
      BY <1>2 DEF Content, ConfigTyped, IsConfig
    <3>4. Content(g).rules = [i \in DOMAIN g.rules |-> RuleContent(g.rules[i])]
      BY DEF Content
    <3> HIDE DEF g
    <3> QED
      BY <1>3, <3>1, <3>2, <3>3, <3>4
  <2>2. CASE f.rules # Kept
    <3>1. e.rules = d.rules
      BY <1>1, <2>2 DEF Section
    <3>2. Content(e).rules = [i \in DOMAIN e.rules |-> RuleContent(e.rules[i])]
      BY <1>2 DEF Content, ConfigTyped, IsConfig
    <3>3. Content(d).rules = [i \in DOMAIN d.rules |-> RuleContent(d.rules[i])]
      BY <1>2 DEF Content, ConfigTyped, IsConfig
    <3> QED
      BY <3>1, <3>2, <3>3
  <2> QED
    BY <2>1, <2>2
<1>7. Content(e) = Content(d)
  BY <1>4, <1>5, <1>6
<1> QED
  BY <1>7 DEF Same, d, e

(***************************************************************************)
(* Every edit leaves the actions of every rule settled.                    *)
(***************************************************************************)
LEMMA SettledFrom ==
  ASSUME NEW S, \A r \in S : ActionsSettled(r.actions), NEW rules \in Seq(S)
  PROVE  RulesSettled(rules)
<1>1. \A i \in DOMAIN rules : rules[i] \in S
  BY ElementOfSeq, LenProperties
<1> QED
  BY <1>1 DEF RulesSettled

LEMMA EventToSendKind ==
  ASSUME NEW a \in Action
  PROVE  EventToSend(a).payload.kind # "event"
<1>1. CASE a.payload.kind = "event"
  <2>1. [a EXCEPT !.payload.kind = "send"].payload.kind = "send"
    BY DEF Action, Payload
  <2> QED
    BY <1>1, <2>1 DEF EventToSend
<1>2. CASE a.payload.kind # "event"
  BY <1>2 DEF EventToSend
<1> QED
  BY <1>1, <1>2

\* What the rule editor sends is stored by delay and without the legacy type.
LEMMA UpdateSettles ==
  ASSUME NEW actions \in Seq(Action)
  PROVE  ActionsSettled(SortActions([j \in DOMAIN actions |-> EventToSend(actions[j])]))
<1> DEFINE new == [j \in DOMAIN actions |-> EventToSend(actions[j])]
<1>1. \A j \in DOMAIN actions : actions[j] \in Action
  BY ElementOfSeq, LenProperties
<1>2. \A j \in DOMAIN actions : new[j] \in Action /\ new[j].payload.kind # "event"
  BY <1>1, EventToSendTyped, EventToSendKind
<1>3. DOMAIN new = DOMAIN actions /\ new = [j \in DOMAIN actions |-> new[j]]
  OBVIOUS
<1> HIDE DEF new
<1>4. new \in Seq(Action)
  BY <1>2, <1>3, ChangeTyped
<1>5. \A j \in DOMAIN new : new[j].payload.kind # "event"
  BY <1>2, <1>3
<1> QED
  BY <1>4, <1>5, SortSettles DEF new

LEMMA CopySettles ==
  ASSUME NEW a \in Seq(Action), ActionsSettled(a), NEW n
  PROVE  ActionsSettled([j \in DOMAIN a |-> [a[j] EXCEPT !.id = n + j - 1]])
<1> DEFINE new == [j \in DOMAIN a |-> [a[j] EXCEPT !.id = n + j - 1]]
<1>1. \A j \in DOMAIN a : a[j] \in Action
  BY ElementOfSeq, LenProperties
<1>2. \A j \in DOMAIN a : new[j].payload = a[j].payload
  BY <1>1 DEF Action
<1>3. DOMAIN new = DOMAIN a
  OBVIOUS
<1> HIDE DEF new
<1>4. ActionsSettled(new)
  BY <1>2, <1>3 DEF ActionsSettled
<1> QED
  BY <1>4 DEF new

LEMMA EditedRules ==
  ASSUME IsConfig(config), NEW rules, EditRules(rules)
  PROVE  config'.rules = rules
  BY DEF EditRules, Edited, IsConfig

LEMMA EditSettles ==
  ASSUME ShapeInv, RulesSettled(config.rules), EditNext
  PROVE  RulesSettled(config'.rules) /\ UNCHANGED <<baseline, file>>
<1> DEFINE R == config.rules
           S == ToSet(R)
<1>1. R \in Seq(S) /\ \A i \in DOMAIN R : R[i] \in S /\ R[i].actions \in Seq(Action)
  BY DEF ShapeInv, TypesInv, ConfigTyped, RulesTyped, IsSequence, ToSet
<1>2. (\A r \in S : ActionsSettled(r.actions)) /\ (\A i \in DOMAIN R : ActionsSettled(R[i].actions))
  BY DEF ToSet, RulesSettled
<1>3. IsConfig(config)
  BY DEF ShapeInv, IdsInv
<1>4. UNCHANGED <<baseline, file>>
  BY DEF EditNext, UpdateHSMS, UpdateDevice, NewRule, UpdateRule, DuplicateRule, DeleteRule,
         MoveRule, EditRules, Edited
<1>5. ASSUME NEW x, UpdateHSMS(x) \/ UpdateDevice(x) PROVE RulesSettled(config'.rules)
  <2>1. config'.rules = config.rules
    BY <1>3, <1>5 DEF UpdateHSMS, UpdateDevice, Edited, IsConfig
  <2> QED
    BY <2>1
<1>6. CASE NewRule
  <2> DEFINE e == [id |-> nextRuleID, head |-> NewHead, copies |-> 0, actions |-> <<>>]
             U == S \cup {e}
  <2>1. EditRules(Append(R, e))
    BY <1>6 DEF NewRule
  <2>2. config'.rules = Append(R, e)
    BY <1>3, <2>1, EditedRules
  <2>3. ActionsSettled(e.actions)
    BY DEF ActionsSettled
  <2> HIDE DEF e, R, S
  <2>4. R \in Seq(U)
    BY <1>1, SeqMonotonic
  <2>5. Append(R, e) \in Seq(U)
    BY <2>4, AppendProperties
  <2>6. \A r \in U : ActionsSettled(r.actions)
    BY <1>2, <2>3
  <2> HIDE DEF U
  <2> QED
    BY <1>4, <2>2, <2>5, <2>6, SettledFrom
<1>7. ASSUME NEW i \in DOMAIN R, NEW head, NEW actions \in ActionEdits(R[i].actions),
             UpdateRule(i, head, actions)
      PROVE  RulesSettled(config'.rules)
  <2>1. PICK e : /\ e.actions = SortActions([j \in DOMAIN actions |-> EventToSend(actions[j])])
                 /\ EditRules([R EXCEPT ![i] = e])
    BY <1>7 DEF UpdateRule
  <2>2. actions \in Seq(Action)
    BY <1>1, ActionEditsTyped
  <2>3. ActionsSettled(e.actions)
    BY <2>1, <2>2, UpdateSettles
  <2>4. config'.rules = [R EXCEPT ![i] = e]
    BY <1>3, <2>1, EditedRules
  <2>5. \A k \in DOMAIN R : ActionsSettled([R EXCEPT ![i] = e][k].actions)
    BY <1>2, <2>3
  <2> QED
    BY <2>4, <2>5 DEF RulesSettled
<1>8. ASSUME NEW i \in DOMAIN R, DuplicateRule(i) PROVE RulesSettled(config'.rules)
  <2> DEFINE a == R[i].actions
             new == [j \in DOMAIN a |-> [a[j] EXCEPT !.id = nextActionID + j - 1]]
  <2>1. PICK e : e.actions = new /\ EditRules(InsertAt(R, i + 1, e))
    BY <1>8 DEF DuplicateRule
  <2>2. ActionsSettled(new)
    BY <1>1, <1>2, CopySettles
  <2>3. config'.rules = InsertAt(R, i + 1, e)
    BY <1>3, <2>1, EditedRules
  <2> DEFINE U == S \cup {e}
  <2>4. \A r \in U : ActionsSettled(r.actions)
    BY <1>2, <2>1, <2>2
  <2> HIDE DEF R, S, a, new
  <2>5. R \in Seq(U) /\ e \in U
    BY <1>1, SeqMonotonic
  <2> HIDE DEF U
  <2>6. InsertAt(R, i + 1, e) \in Seq(U)
    BY <2>5, InsertTyped
  <2> QED
    BY <2>3, <2>4, <2>6, SettledFrom
<1>9. ASSUME NEW i \in DOMAIN R, DeleteRule(i) PROVE RulesSettled(config'.rules)
  <2>1. config'.rules = RemoveAt(R, i)
    BY <1>3, <1>9, EditedRules DEF DeleteRule
  <2> HIDE DEF R, S
  <2>2. RemoveAt(R, i) \in Seq(S)
    BY <1>1, RemoveTyped
  <2> QED
    BY <1>2, <2>1, <2>2, SettledFrom
<1>10. ASSUME NEW i \in DOMAIN R, NEW direction, MoveRule(i, direction)
       PROVE  RulesSettled(config'.rules)
  <2>1. PICK j \in DOMAIN R : EditRules([R EXCEPT ![i] = R[j], ![j] = R[i]])
    BY <1>10 DEF MoveRule
  <2>2. config'.rules = [R EXCEPT ![i] = R[j], ![j] = R[i]]
    BY <1>3, <2>1, EditedRules
  <2>3. \A k \in DOMAIN R : ActionsSettled([R EXCEPT ![i] = R[j], ![j] = R[i]][k].actions)
    BY <1>2
  <2> QED
    BY <2>2, <2>3 DEF RulesSettled
<1>11. RulesSettled(config'.rules)
  BY <1>5, <1>6, <1>7, <1>8, <1>9, <1>10 DEF EditNext
<1> QED
  BY <1>4, <1>11

(***************************************************************************)
(* The invariant, under the hypothesis that the working configuration      *)
(* survives loading.                                                       *)
(***************************************************************************)
LEMMA BootHolds ==
  ASSUME NEW f, NEW c, Boots(f, c), FileBacked, f # NoFile
  PROVE  FileHolds(f, c)
<1>1. \/ Loadable(f) /\ c = Load(f, SeedConfig)
      \/ f = Unreadable /\ c = SeedConfig
  BY DEF Boots
<1> QED
  BY <1>1 DEF FileHolds, Same

LEMMA InitHolds ==
  ASSUME MarksApart, Init, ShapeInv, Survives(config)
  PROVE  FileInv
<1>1. PICK f \in FirstFiles :
        Boots(f, config) /\ file = IF FileBacked /\ f = NoFile THEN Content(config) ELSE f
  BY DEF Init
<1>2. IsFile(f) /\ FileTyped(f) /\ ConfigTyped(config) /\ baseline = config
  BY ConfigAssumption DEF ShapeInv, TypesInv, Init
<1>3. RulesSettled(config.rules)
  BY <1>1, <1>2, BootSettles
<1>4. ASSUME FileBacked PROVE FileHolds(file, config)
  <2>1. CASE f = NoFile
    BY <1>1, <1>2, <1>3, <1>4, <2>1, SavedIsLoaded
  <2>2. CASE f # NoFile
    BY <1>1, <1>4, <2>2, BootHolds
  <2> QED
    BY <2>1, <2>2
<1> QED
  BY <1>2, <1>3, <1>4 DEF FileInv

LEMMA FileStepHolds ==
  ASSUME MarksApart, ShapeInv, FileInv, Survives(config), Survives(config'), FileNext \/ ClearLog
  PROVE  FileInv'
<1> USE DEF FileHolds
<1>0. /\ ConfigTyped(config) /\ ConfigTyped(baseline) /\ IsFile(file) /\ FileTyped(file)
      /\ RulesSettled(config.rules) /\ RulesSettled(baseline.rules) /\ Survives(baseline)
  BY DEF ShapeInv, TypesInv, FileInv
<1>1. CASE Save
  <2>1. config' = config /\ baseline' = config
        /\ (FileBacked => file' = Content(config))
    BY <1>1 DEF Save
  <2>2. FileHolds(Content(config), config)
    BY <1>0, SavedIsLoaded
  <2> QED
    BY <1>0, <2>1, <2>2 DEF FileInv
<1>2. CASE Reload
  <2> DEFINE c == IF FileBacked THEN Load(file, baseline) ELSE baseline
  <2>1. config' = c /\ baseline' = c /\ file' = file /\ (FileBacked => Loadable(file))
    BY <1>2 DEF Reload
  <2>2. RulesSettled(c.rules)
    BY <1>0, <2>1, LoadSettles
  <2>3. ASSUME FileBacked, file \notin FileEdits PROVE FileHolds(file, c)
    <3>1. Loadable(file)
      BY <2>1, <2>3
    <3>2. Same(baseline, Load(file, SeedConfig))
      BY <2>3, <3>1 DEF FileInv, Loadable
    <3>3. Same(Load(file, baseline), Load(file, SeedConfig))
      BY <1>0, <3>1, <3>2, ReloadedIsSame
    <3> QED
      BY <2>3, <3>1, <3>3
  <2>4. Survives(c)
    BY <2>1
  <2> HIDE DEF c
  <2> QED
    BY <2>1, <2>2, <2>3, <2>4 DEF FileInv
<1>3. CASE Restart
  <2>1. PICK c : /\ Boots(file, c) /\ config' = c /\ baseline' = c
                 /\ file' = IF FileBacked /\ file = NoFile THEN Content(c) ELSE file
    BY <1>3 DEF Restart
  <2>2. RulesSettled(c.rules) /\ ConfigTyped(c) /\ Survives(c)
    BY <1>0, <2>1, BootSettles, BootTyped
  <2>3. ASSUME FileBacked PROVE FileHolds(file', c)
    <3>1. CASE file = NoFile
      BY <2>1, <2>2, <2>3, <3>1, SavedIsLoaded
    <3>2. CASE file # NoFile
      BY <2>1, <2>3, <3>2, BootHolds
    <3> QED
      BY <3>1, <3>2
  <2> QED
    BY <2>1, <2>2, <2>3 DEF FileInv
<1>4. CASE RefusesToStart \/ ClearLog
  BY <1>4 DEF RefusesToStart, ClearLog, FileInv
<1>5. ASSUME NEW f \in FileEdits, EditFile(f) PROVE FileInv'
  BY <1>5 DEF EditFile, FileInv
<1> QED
  BY <1>1, <1>2, <1>3, <1>4, <1>5 DEF FileNext

LEMMA StepHolds ==
  ASSUME MarksApart, ShapeInv, FileInv, Survives(config), Survives(config'), [Next]_configVars
  PROVE  FileInv'
<1>1. CASE EditNext
  <2>1. RulesSettled(config'.rules) /\ UNCHANGED <<baseline, file>>
    BY <1>1, EditSettles DEF FileInv
  <2> QED
    BY <2>1 DEF FileInv
<1>2. CASE FileNext \/ ClearLog
  BY <1>2, FileStepHolds
<1>3. CASE RuntimeNext
  <2>1. UNCHANGED <<config, baseline, file>>
    BY <1>3 DEF RuntimeNext, SetRuntime, ToggleRuntime, SetRuntimeError, SetHSMSState,
           RecordAppliedHSMS
  <2> QED
    BY <2>1 DEF FileInv
<1>4. CASE UNCHANGED configVars
  BY <1>4 DEF FileInv, configVars
<1> QED
  BY <1>1, <1>2, <1>3, <1>4 DEF Next

\* The working configuration survives being saved and loaded.
ConfigSurvives == Survives(config)

\* As long as the types of the actions are known and the numbers that a load gives out
\* are in order as strings, a configuration shown as clean is what a restart of the
\* program starts with, whatever was edited, saved, reloaded, written by hand or lost in
\* a crash before.
THEOREM CleanIsWhatRestartLoads ==
  MarksApart => (Spec /\ []ConfigSurvives => []CleanMatchesFile)
<1> SUFFICES ASSUME MarksApart PROVE Spec /\ []ConfigSurvives => []CleanMatchesFile
  OBVIOUS
<1>1. Init => ShapeInv /\ FlagsInv
  BY InitIds, InitTyped, InitFlags DEF ShapeInv
<1>2. ShapeInv /\ Init /\ ConfigSurvives => FileInv
  BY InitHolds DEF ConfigSurvives
<1>3. FlagsInv /\ [Next]_configVars => FlagsInv'
  BY FlagsKept
<1>4. ShapeInv /\ FileInv /\ ConfigSurvives /\ ConfigSurvives' /\ [Next]_configVars => FileInv'
  BY StepHolds DEF ConfigSurvives
<1>5. ShapeInv /\ FileInv /\ FlagsInv => CleanMatchesFile
  <2> SUFFICES ASSUME FileInv, FlagsExact, FileBacked, ~dirty, file \notin FileEdits
               PROVE  FileHolds(file, config)
    BY DEF CleanMatchesFile, FlagsInv, FileHolds
  <2>1. FileHolds(file, baseline) /\ Content(config) = Content(baseline)
    BY DEF FileInv, FlagsExact, Same
  <2> QED
    BY <2>1 DEF FileHolds, Same
<1> QED
  BY <1>1, <1>2, <1>3, <1>4, <1>5, ShapeKept, PTL DEF Spec

(***************************************************************************)
(* When the numbers are in order.  As strings "action-9" comes after       *)
(* "action-10", and up to "action-99" that is the only place where the     *)
(* order of the strings and the order of the numbers differ.               *)
(***************************************************************************)
LEMMA TensInOrder ==
  ASSUME NEW m \in Nat, NEW n \in Nat, m < n
  PROVE  m + (m \div 10) < n + (n \div 10)
  OBVIOUS

LEMMA RanksInOrder ==
  ASSUME NEW m \in Nat, NEW n \in Nat, 0 < m, m < n, n < 10 \/ 10 <= m
  PROVE  IdRank(m) < IdRank(n)
<1>1. m \in Generated /\ n \in Generated
  BY DEF Generated
<1>2. CASE n < 10
  BY <1>1, <1>2 DEF IdRank
<1>3. CASE 10 <= m
  <2>1. /\ IdRank(m) = 11 * (m \div 10) + (m % 10) + 1
        /\ IdRank(n) = 11 * (n \div 10) + (n % 10) + 1
    BY <1>1, <1>3 DEF IdRank
  <2>2. m = 10 * (m \div 10) + (m % 10) /\ n = 10 * (n \div 10) + (n % 10)
    OBVIOUS
  <2>3. /\ m \div 10 \in Int /\ m % 10 \in Int
        /\ n \div 10 \in Int /\ n % 10 \in Int
    OBVIOUS
  <2>4. m + (m \div 10) < n + (n \div 10)
    BY TensInOrder
  <2> QED
    BY <2>1, <2>2, <2>3, <2>4
<1> QED
  BY <1>2, <1>3

\* No rule holds both the ninth and the tenth action of the configuration.
NoneAcrossTen ==
  \A i \in DOMAIN config.rules :
    \/ Position(config.rules, i) + Len(config.rules[i].actions) <= 9
    \/ 9 <= Position(config.rules, i)

\* Every action has a type that the program knows.
KindsKnown == KnownKinds(config)

LEMMA AcrossTenSurvives ==
  ASSUME ConfigTyped(config), KindsKnown, NoneAcrossTen
  PROVE  ConfigSurvives
<1> SUFFICES ASSUME NEW i \in DOMAIN config.rules,
                    NEW j \in DOMAIN config.rules[i].actions,
                    NEW k \in DOMAIN config.rules[i].actions, j < k
             PROVE  IdRank(Position(config.rules, i) + j) < IdRank(Position(config.rules, i) + k)
  BY DEF ConfigSurvives, Survives, KindsKnown, NumbersInOrder
<1> DEFINE a == config.rules[i].actions
           p == Position(config.rules, i)
<1>1. \A l \in DOMAIN config.rules : IsSequence(config.rules[l].actions)
  BY SequenceOf DEF ConfigTyped, RulesTyped
<1>2. Len(a) \in Nat /\ DOMAIN a = 1 .. Len(a)
  BY <1>1, SequenceLength
<1>3. p \in Nat
  <2>1. IsSequence(config.rules) /\ i \in 1 .. Len(config.rules) + 1
    BY SequenceLength DEF ConfigTyped, RulesTyped
  <2> QED
    BY <1>1, <2>1, EarlierFinite
<1>4. p + Len(a) <= 9 \/ 9 <= p
  BY DEF NoneAcrossTen
<1> HIDE DEF a, p
<1>5. j \in 1 .. Len(a) /\ k \in 1 .. Len(a)
  BY <1>2 DEF a
<1>6. /\ p + j \in Nat /\ p + k \in Nat /\ 0 < p + j /\ p + j < p + k
      /\ p + k < 10 \/ 10 <= p + j
  BY <1>2, <1>3, <1>4, <1>5
<1>7. IdRank(p + j) < IdRank(p + k)
  BY <1>6, RanksInOrder
<1> QED
  BY <1>7 DEF p

\* Up to ninety-nine actions, no rule that holds both the ninth and the tenth is enough.
THEOREM CleanUnlessAcrossTen ==
  MarksApart => (Spec /\ []KindsKnown /\ []NoneAcrossTen => []CleanMatchesFile)
<1>1. ShapeInv /\ KindsKnown /\ NoneAcrossTen => ConfigSurvives
  BY AcrossTenSurvives DEF ShapeInv, TypesInv
<1>2. Init => ShapeInv
  BY InitIds, InitTyped DEF ShapeInv
<1>3. MarksApart => (Spec /\ []ConfigSurvives => []CleanMatchesFile)
  BY CleanIsWhatRestartLoads
<1> SUFFICES ASSUME MarksApart
             PROVE  Spec /\ []KindsKnown /\ []NoneAcrossTen => []CleanMatchesFile
  OBVIOUS
<1>4. Spec /\ []ConfigSurvives => []CleanMatchesFile
  BY <1>3
<1> QED
  BY <1>1, <1>2, <1>4, ShapeKept, PTL DEF Spec
============================================================================
