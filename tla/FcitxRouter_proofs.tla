-------------------------- MODULE FcitxRouter_proofs --------------------------
(***************************************************************************)
(* The routing table: adding a rule to a sorted table and removing rules   *)
(* from it leave it sorted, whatever its length, and the first rule that   *)
(* matches a call in a sorted table is the best of those that do.          *)
(***************************************************************************)
EXTENDS FcitxRouter, Selection_proofs, FiniteSetTheorems, TLAPS

LEMMA SpecificityType == \A r : Specificity(r) \in Nat
<1> TAKE r
<1> DEFINE S == {f \in Fields : r[f] # Wildcard}
<1>1. IsFiniteSet(Fields)
  <2>1. IsFiniteSet({}) /\ Fields = (({} \cup {"destination"}) \cup {"interface"}) \cup {"method"}
    BY FS_EmptySet DEF Fields
  <2> QED
    BY <2>1, FS_AddElement
<1>2. IsFiniteSet(S)
  BY <1>1, FS_Subset, S \subseteq Fields
<1> QED
  BY <1>2, FS_CardinalityType DEF Specificity

\* Before is a strict weak order.
LEMMA BeforeOrder ==
  ASSUME NEW r \in AllRules, NEW q \in AllRules, NEW p \in AllRules
  PROVE  /\ Before(r, q) => ~Before(q, r)
         /\ Before(r, q) /\ ~Before(p, q) => Before(r, p)
         /\ ~Before(r, q) /\ ~Before(q, p) => ~Before(r, p)
<1>1. \A s \in AllRules : s.priority \in Int /\ Specificity(s) \in Int
  BY BuiltinAssumption, SpecificityType
<1> QED
  BY <1>1 DEF Before

\* The first place in a sequence where a test holds.
LEMMA FirstPlace ==
  ASSUME NEW n \in Nat, NEW I \in SUBSET (1 .. n)
  PROVE  LET k == IF I # {} THEN Min(I) ELSE 0 IN
         /\ k \in 0 .. n
         /\ k = 0 <=> I = {}
         /\ k # 0 => k \in I /\ \A i \in I : k <= i
<1>1. CASE I = {}
  BY <1>1
<1>2. CASE I # {}
  <2>1. \E m \in I : \A i \in I : m <= i
    BY <1>2, LeastOf
  <2>2. Min(I) \in I /\ \A i \in I : Min(I) <= i
    BY <2>1, Zenon DEF Min
  <2> DEFINE m == Min(I)
  <2>3. m \in I /\ (\A i \in I : m <= i) /\ m \in 1 .. n
    BY <2>2
  <2> HIDE DEF m
  <2>4. /\ m \in 0 .. n /\ m # 0
        /\ m \in I /\ \A i \in I : m <= i
    BY <2>3
  <2>5. (IF I # {} THEN Min(I) ELSE 0) = m
    BY <1>2 DEF m
  <2> QED
    BY <1>2, <2>4, <2>5
<1> QED
  BY <1>1, <1>2

\* push and sort, for a table of any length
LEMMA AddToSorted ==
  ASSUME NEW t \in Seq(AllRules), NEW r \in AllRules, Sorted(t)
  PROVE  AddTo(t, r) \in Seq(AllRules) /\ Sorted(AddTo(t, r))
<1> DEFINE I == {i \in 1 .. Len(t) : Before(r, t[i])}
           k == IF I # {} THEN Min(I) ELSE 0
           n == Len(t)
<1>1. n \in Nat /\ DOMAIN t = 1 .. n /\ \A i \in 1 .. n : t[i] \in AllRules
  BY LenProperties, ElementOfSeq
<1>2. AddTo(t, r) = IF k = 0 THEN Append(t, r) ELSE InsertAt(t, k, r)
  BY Zenon DEF AddTo, SelectInSeq
<1>3. /\ k \in 0 .. n
      /\ k = 0 => I = {}
      /\ k # 0 => k \in I /\ \A i \in I : k <= i
  BY <1>1, FirstPlace, I \in SUBSET (1 .. n)
<1>4. CASE k = 0
  <2> DEFINE u == Append(t, r)
  <2>1. /\ u \in Seq(AllRules) /\ DOMAIN u = 1 .. (n + 1) /\ u[n + 1] = r
        /\ \A i \in 1 .. n : u[i] = t[i]
    BY <1>1, AppendProperties, Appended
  <2>2. \A i \in 1 .. n : ~Before(r, t[i])
    BY <1>3, <1>4
  <2> HIDE DEF u, I, k, n
  <2>3. Sorted(u)
    BY <1>1, <2>1, <2>2 DEF Sorted
  <2> QED
    BY <1>2, <1>4, <2>1, <2>3 DEF u
<1>5. CASE k # 0
  <2> DEFINE a == SubSeq(t, 1, k - 1)
             b == SubSeq(t, k, n)
             u == InsertAt(t, k, r)
  <2>2. u = a \o <<r>> \o b
    BY DEF InsertAt
  <2> HIDE DEF k, n
  <2>1. k \in 1 .. n /\ Before(r, t[k]) /\ \A i \in 1 .. (k - 1) : ~Before(r, t[i])
    <3>1. k \in I /\ \A i \in I : k <= i
      BY <1>3, <1>5
    <3>2. k \in 1 .. n /\ Before(r, t[k])
      BY <3>1 DEF n
    <3>3. ASSUME NEW i \in 1 .. (k - 1) PROVE ~Before(r, t[i])
      <4>1. i \in 1 .. n /\ i \notin I
        BY <1>1, <3>1, <3>2
      <4> QED
        BY <4>1 DEF n
    <3> QED
      BY <3>2, <3>3
  <2> HIDE DEF I
  <2>3. /\ a \in Seq(AllRules) /\ Len(a) = k - 1 /\ \A i \in 1 .. (k - 1) : a[i] = t[i]
        /\ b \in Seq(AllRules) /\ Len(b) = n - k + 1
        /\ \A i \in 1 .. (n - k + 1) : b[i] = t[k + i - 1]
    BY <1>1, <2>1, SubSeqProperties
  <2> HIDE DEF a, b, u
  <2>4. /\ u \in Seq(AllRules) /\ Len(u) = n + 1
        /\ \A i \in 1 .. (k - 1) : u[i] = t[i]
        /\ u[k] = r
        /\ \A i \in (k + 1) .. (n + 1) : u[i] = t[i - 1]
    <3>1. /\ a \o <<r>> \in Seq(AllRules) /\ Len(a \o <<r>>) = k
          /\ \A i \in 1 .. (k - 1) : (a \o <<r>>)[i] = t[i]
          /\ (a \o <<r>>)[k] = r
      <4>1. a \o <<r>> = Append(a, r)
        BY <2>3
      <4>2. /\ Append(a, r) \in Seq(AllRules) /\ Len(Append(a, r)) = k
            /\ Append(a, r)[k] = r
            /\ \A i \in 1 .. (k - 1) : Append(a, r)[i] = a[i]
        BY <1>1, <2>1, <2>3, AppendProperties
      <4> QED
        BY <2>3, <4>1, <4>2
    <3> DEFINE c == a \o <<r>>
    <3> HIDE DEF c
    <3>2. /\ c \o b \in Seq(AllRules) /\ Len(c \o b) = k + Len(b)
          /\ \A i \in 1 .. k : (c \o b)[i] = c[i]
          /\ \A i \in (k + 1) .. (n + 1) : (c \o b)[i] = b[i - k]
      BY <1>1, <2>1, <2>3, <3>1, ConcatProperties DEF c
    <3>3. \A i \in (k + 1) .. (n + 1) : i - k \in 1 .. (n - k + 1) /\ k + (i - k) - 1 = i - 1
      BY <1>1, <2>1
    <3>4. k + Len(b) = n + 1
      BY <1>1, <2>1, <2>3
    <3> QED
      BY <1>1, <2>1, <2>2, <2>3, <3>1, <3>2, <3>3, <3>4 DEF c
  <2>5. DOMAIN u = 1 .. (n + 1)
    BY <2>4, LenProperties
  <2>6. \A i \in k .. n : ~Before(t[i], r)
    <3> TAKE i \in k .. n
    <3>1. ~Before(t[i], t[k])
      BY <1>1, <2>1, BeforeOrder DEF Sorted
    <3> QED
      BY <1>1, <2>1, <3>1, BeforeOrder
  <2>7. Sorted(u)
    <3> SUFFICES ASSUME NEW i \in DOMAIN u, NEW j \in DOMAIN u, i < j PROVE ~Before(u[j], u[i])
      BY DEF Sorted
    <3>1. CASE i < k /\ j < k
      BY <1>1, <2>1, <2>4, <2>5, <3>1 DEF Sorted
    <3>2. CASE i < k /\ j = k
      BY <1>1, <2>1, <2>4, <2>5, <3>2
    <3>3. CASE i < k /\ j > k
      <4>1. j - 1 \in DOMAIN t /\ i \in DOMAIN t /\ i < j - 1 /\ u[j] = t[j - 1] /\ u[i] = t[i]
        BY <1>1, <2>1, <2>4, <2>5, <3>3
      <4> QED
        BY <4>1 DEF Sorted
    <3>4. CASE i = k
      <4>1. j - 1 \in k .. n /\ u[j] = t[j - 1] /\ u[i] = r
        BY <1>1, <2>1, <2>4, <2>5, <3>4
      <4> QED
        BY <2>6, <4>1
    <3>5. CASE i > k
      <4>1. /\ j - 1 \in DOMAIN t /\ i - 1 \in DOMAIN t /\ i - 1 < j - 1
            /\ u[j] = t[j - 1] /\ u[i] = t[i - 1]
        BY <1>1, <2>1, <2>4, <2>5, <3>5
      <4> QED
        BY <4>1 DEF Sorted
    <3> QED
      BY <1>1, <2>1, <2>5, <3>1, <3>2, <3>3, <3>4, <3>5
  <2> QED
    BY <1>2, <1>5, <2>4, <2>7 DEF u
<1> QED
  BY <1>4, <1>5

LEMMA RemoveFromSorted ==
  ASSUME NEW t \in Seq(AllRules), NEW id, Sorted(t)
  PROVE  RemoveFrom(t, id) \in Seq(AllRules) /\ Sorted(RemoveFrom(t, id))
<1> DEFINE K == {q \in ToSet(t) : q.id # id}
           u == Selected(t, K)
<1>1. u \in Seq(AllRules) /\ InOrder(t, u)
  BY SelectedInSeq, SelectedInOrder
<1>2. RemoveFrom(t, id) = u
  BY DEF RemoveFrom
<1> HIDE DEF u
<1>3. Sorted(u)
  BY <1>1 DEF Sorted, InOrder
<1> QED
  BY <1>1, <1>2, <1>3

\* The first rule that matches in a sorted table is preceded by none that does.
LEMMA RouteIsBest ==
  ASSUME NEW t \in Seq(AllRules), Sorted(t), NEW m, NEW i \in DOMAIN t, Matches(t[i], m)
  PROVE  \E j \in DOMAIN t : Matches(t[j], m) /\ ~Before(t[i], t[j]) /\ Route(t, m) = t[j].target
<1> DEFINE I == {l \in 1 .. Len(t) : Matches(t[l], m)}
           k == IF I # {} THEN Min(I) ELSE 0
<1>1. Len(t) \in Nat /\ DOMAIN t = 1 .. Len(t) /\ \A l \in DOMAIN t : t[l] \in AllRules
  BY LenProperties, ElementOfSeq
<1>2. Route(t, m) = IF k = 0 THEN None ELSE t[k].target
  BY Zenon DEF Route, SelectInSeq
<1>3. i \in I
  BY <1>1
<1>4. k # 0 /\ k \in I /\ k <= i
  BY <1>1, <1>3, FirstPlace, I \in SUBSET (1 .. Len(t))
<1>5. k \in DOMAIN t /\ Matches(t[k], m)
  BY <1>1, <1>4
<1> HIDE DEF k, I
<1>6. ~Before(t[i], t[k])
  <2>1. CASE k < i
    BY <1>5, <2>1 DEF Sorted
  <2>2. CASE k = i
    BY <1>1, <2>2, BeforeOrder
  <2> QED
    BY <1>1, <1>4, <1>5, <2>1, <2>2
<1> QED
  BY <1>2, <1>4, <1>5, <1>6
=============================================================================
