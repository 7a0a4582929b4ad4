--------------------------- MODULE Selection_proofs ---------------------------
(***************************************************************************)
(* Induction over numbers and over sequences, from the library's theorem   *)
(* that a well-founded relation has minimal elements, stated with a set in *)
(* place of a predicate; and with it what Selected computes, for every       *)
(* sequence.                                                               *)
(***************************************************************************)
EXTENDS Selection, SequenceTheorems, WellFoundedInduction, TLAPS

LEMMA LessThan ==
  \E R : IsWellFoundedOn(R, Nat) /\ R = {ss \in Nat \X Nat : ss[1] < ss[2]}
BY NatLessThanWellFounded, Zenon DEF OpToRel

\* A nonempty set of natural numbers has a least element.
LEMMA LeastOf ==
  ASSUME NEW T \in SUBSET Nat, T # {}
  PROVE  \E m \in T : \A k \in T : m <= k
<1>1. PICK R : IsWellFoundedOn(R, Nat) /\ R = {ss \in Nat \X Nat : ss[1] < ss[2]}
  BY LessThan
<1>2. PICK m \in T : \A k \in T : <<k, m>> \notin R
  BY <1>1, WFMin
<1>3. \A k \in T : ~(k < m)
  BY <1>1, <1>2
<1> QED
  BY <1>3

\* A set that holds 0 and the successor of each of its numbers holds them all.
LEMMA NumberInduction ==
  ASSUME NEW H \in SUBSET Nat, 0 \in H, \A n \in H : n + 1 \in H
  PROVE  H = Nat
<1> SUFFICES ASSUME Nat \ H # {} PROVE FALSE
  OBVIOUS
<1>1. PICK m \in Nat \ H : \A k \in Nat \ H : m <= k
  BY LeastOf
<1>2. m # 0 /\ m - 1 \in Nat /\ m - 1 \in H
  BY <1>1
<1> QED
  BY <1>2

\* A set of sequences that holds the empty one and is closed under Append
\* holds them all.
LEMMA SequenceInduction ==
  ASSUME NEW S, NEW H \in SUBSET Seq(S), <<>> \in H,
         \A q \in H, x \in S : Append(q, x) \in H
  PROVE  H = Seq(S)
<1> DEFINE L == {n \in Nat : \A q \in Seq(S) : Len(q) = n => q \in H}
<1>1. 0 \in L
  BY EmptySeq
<1>2. ASSUME NEW n \in L PROVE n + 1 \in L
  <2> SUFFICES ASSUME NEW q \in Seq(S), Len(q) = n + 1 PROVE q \in H
    OBVIOUS
  <2>1. q # <<>>
    BY <1>2
  <2>2. PICK s \in Seq(S), e \in S : q = Append(s, e)
    BY <2>1, SequenceEmptyOrAppend
  <2>3. Len(s) = n
    BY <2>2, <1>2, AppendProperties
  <2> QED
    BY <2>2, <2>3, <1>2
<1> HIDE DEF L
<1>3. L = Nat
  <2>1. L \in SUBSET Nat
    BY DEF L
  <2> QED
    BY <2>1, <1>1, <1>2, NumberInduction
<1>4. ASSUME NEW q \in Seq(S) PROVE q \in H
  <2>1. Len(q) \in L
    BY <1>3, LenProperties
  <2> QED
    BY <2>1 DEF L
<1> QED
  BY <1>4

\* How the prefixes of q are gone through, one after another.
Steps(F, q, K, n) ==
  F = [i \in 0 .. n |-> IF i = 0 THEN <<>>
                        ELSE IF q[i] \in K THEN Append(F[i - 1], q[i]) ELSE F[i - 1]]

LEMMA StepOf ==
  ASSUME NEW F, NEW q, NEW K, NEW n, Steps(F, q, K, n), NEW i \in 0 .. n
  PROVE  F[i] = IF i = 0 THEN <<>>
                ELSE IF q[i] \in K THEN Append(F[i - 1], q[i]) ELSE F[i - 1]
BY Zenon DEF Steps

LEMMA StepsExist ==
  ASSUME NEW S, NEW q \in Seq(S), NEW K
  PROVE  \E F : Steps(F, q, K, Len(q))
<1> DEFINE H == {n \in Nat : \E F : Steps(F, q, K, n)}
<1>1. 0 \in H
  <2>1. Steps([i \in 0 .. 0 |-> <<>>], q, K, 0)
    BY DEF Steps
  <2> QED
    BY <2>1
<1>2. ASSUME NEW n \in H PROVE n + 1 \in H
  <2>1. PICK F : Steps(F, q, K, n)
    BY <1>2
  <2> DEFINE G == [i \in 0 .. (n + 1) |->
                     IF i <= n THEN F[i]
                     ELSE IF q[n + 1] \in K THEN Append(F[n], q[n + 1]) ELSE F[n]]
  <2>2. ASSUME NEW i \in 0 .. (n + 1)
        PROVE  G[i] = IF i = 0 THEN <<>>
                      ELSE IF q[i] \in K THEN Append(G[i - 1], q[i]) ELSE G[i - 1]
    <3>1. CASE i <= n
      <4>1. F[i] = IF i = 0 THEN <<>>
                   ELSE IF q[i] \in K THEN Append(F[i - 1], q[i]) ELSE F[i - 1]
        BY <2>1, <3>1, StepOf, i \in 0 .. n
      <4>2. G[i] = F[i] /\ (i # 0 => G[i - 1] = F[i - 1])
        BY <3>1
      <4> QED
        BY <4>1, <4>2
    <3>2. CASE i = n + 1
      BY <3>2
    <3> QED
      BY <3>1, <3>2
  <2> HIDE DEF G
  <2>3. Steps(G, q, K, n + 1)
    <3>1. DOMAIN G = 0 .. (n + 1) /\ G = [i \in 0 .. (n + 1) |-> G[i]]
      BY DEF G
    <3> QED
      BY <2>2, <3>1, Zenon DEF Steps
  <2> QED
    BY <2>3
<1> HIDE DEF H
<1>3. H \in SUBSET Nat
  BY DEF H
<1>4. H = Nat
  BY <1>1, <1>2, <1>3, NumberInduction
<1>5. Len(q) \in H
  BY <1>4, LenProperties
<1> QED
  BY <1>5 DEF H

LEMMA SelectedSteps ==
  ASSUME NEW S, NEW q \in Seq(S), NEW K
  PROVE  \E F : Steps(F, q, K, Len(q)) /\ Selected(q, K) = F[Len(q)]
<1> DEFINE F == CHOOSE F : Steps(F, q, K, Len(q))
<1>1. Steps(F, q, K, Len(q))
  BY StepsExist
<1>2. Selected(q, K) = F[Len(q)]
  BY Zenon DEF Selected, Steps
<1> HIDE DEF F
<1> QED
  BY <1>1, <1>2

LEMMA AppendOfConcat ==
  ASSUME NEW S, NEW q \in Seq(S), NEW s \in Seq(S), NEW x \in S
  PROVE  q \o Append(s, x) = Append(q \o s, x)
OBVIOUS

LEMMA SelectedOfNone == \A K : Selected(<<>>, K) = <<>>
<1> TAKE K
<1>1. PICK F : Steps(F, <<>>, K, Len(<<>>)) /\ Selected(<<>>, K) = F[Len(<<>>)]
  BY SelectedSteps, EmptySeq
<1> QED
  BY <1>1, StepOf

\* One element more is kept at the end, or is not.
LEMMA SelectedAppend ==
  ASSUME NEW S, NEW q \in Seq(S), NEW x \in S, NEW K
  PROVE  Selected(Append(q, x), K) =
           IF x \in K THEN Append(Selected(q, K), x) ELSE Selected(q, K)
<1> DEFINE r == Append(q, x)
           n == Len(q)
<1>1. /\ r \in Seq(S) /\ n \in Nat /\ Len(r) = n + 1
      /\ r[n + 1] = x /\ \A i \in 1 .. n : r[i] = q[i]
  BY AppendProperties, LenProperties
<1> HIDE DEF r, n
<1>2. PICK F : Steps(F, q, K, n) /\ Selected(q, K) = F[n]
  BY SelectedSteps DEF n
<1>3. PICK G : Steps(G, r, K, n + 1) /\ Selected(r, K) = G[n + 1]
  BY <1>1, SelectedSteps
<1> DEFINE H == {i \in Nat : i <= n => F[i] = G[i]}
<1>4. H = Nat
  <2>1. 0 \in H
    BY <1>1, <1>2, <1>3, StepOf
  <2>2. ASSUME NEW i \in H PROVE i + 1 \in H
    <3> SUFFICES ASSUME i + 1 <= n PROVE F[i + 1] = G[i + 1]
      OBVIOUS
    <3>1. F[i] = G[i] /\ i + 1 - 1 = i /\ r[i + 1] = q[i + 1]
      BY <2>2, <1>1
    <3>2. F[i + 1] = IF q[i + 1] \in K THEN Append(F[i], q[i + 1]) ELSE F[i]
      BY <1>1, <1>2, <3>1, StepOf, i + 1 \in 0 .. n, i + 1 # 0
    <3>3. G[i + 1] = IF r[i + 1] \in K THEN Append(G[i], r[i + 1]) ELSE G[i]
      BY <1>1, <1>3, <3>1, StepOf, i + 1 \in 0 .. (n + 1), i + 1 # 0
    <3> QED
      BY <3>1, <3>2, <3>3
  <2>3. H \in SUBSET Nat
    OBVIOUS
  <2> HIDE DEF H
  <2> QED
    BY <2>1, <2>2, <2>3, NumberInduction
<1>5. F[n] = G[n]
  BY <1>1, <1>4
<1>6. G[n + 1] = IF r[n + 1] \in K THEN Append(G[n], r[n + 1]) ELSE G[n]
  BY <1>1, <1>3, StepOf, n + 1 \in 0 .. (n + 1), n + 1 # 0, n + 1 - 1 = n
<1> QED
  BY <1>1, <1>2, <1>3, <1>5, <1>6 DEF r

LEMMA SelectedType ==
  ASSUME NEW S, NEW q \in Seq(S), NEW K
  PROVE  Selected(q, K) \in Seq(S \cap K)
<1> DEFINE H == {s \in Seq(S) : Selected(s, K) \in Seq(S \cap K)}
<1>1. <<>> \in H
  BY SelectedOfNone, EmptySeq
<1>2. ASSUME NEW s \in H, NEW x \in S PROVE Append(s, x) \in H
  <2>1. s \in Seq(S) /\ Selected(s, K) \in Seq(S \cap K) /\ Append(s, x) \in Seq(S)
    BY <1>2, AppendProperties
  <2>2. Selected(Append(s, x), K) = IF x \in K THEN Append(Selected(s, K), x) ELSE Selected(s, K)
    BY <2>1, SelectedAppend
  <2>3. x \in K => Append(Selected(s, K), x) \in Seq(S \cap K)
    BY <2>1, AppendProperties, x \in K => x \in S \cap K
  <2> QED
    BY <2>1, <2>2, <2>3
<1>3. H \in SUBSET Seq(S)
  OBVIOUS
<1> HIDE DEF H
<1>4. H = Seq(S)
  BY <1>1, <1>2, <1>3, SequenceInduction
<1> QED
  BY <1>4 DEF H

LEMMA SelectedInSeq ==
  ASSUME NEW S, NEW q \in Seq(S), NEW K
  PROVE  Selected(q, K) \in Seq(S)
<1>1. Selected(q, K) \in Seq(S \cap K) /\ S \cap K \subseteq S
  BY SelectedType
<1> QED
  BY <1>1, SeqMonotonic

\* Selecting from a concatenation selects from its parts.
LEMMA SelectedConcat ==
  ASSUME NEW S, NEW q \in Seq(S), NEW r \in Seq(S), NEW K
  PROVE  Selected(q \o r, K) = Selected(q, K) \o Selected(r, K)
<1> DEFINE f(s) == Selected(s, K)
           H == {s \in Seq(S) : f(q \o s) = f(q) \o f(s)}
<1>0. \A s \in Seq(S) : f(s) \in Seq(S)
  BY SelectedInSeq
<1>1. <<>> \in H
  BY <1>0, SelectedOfNone, EmptySeq, ConcatEmptySeq
<1>a. \A s \in Seq(S), x \in S : f(Append(s, x)) = IF x \in K THEN Append(f(s), x) ELSE f(s)
  BY SelectedAppend
<1> HIDE DEF f
<1>2. ASSUME NEW s \in H, NEW x \in S PROVE Append(s, x) \in H
  <2>1. s \in Seq(S) /\ Append(s, x) \in Seq(S) /\ f(q \o s) = f(q) \o f(s)
    BY <1>2, AppendProperties
  <2>2. PICK t \in Seq(S) : t = q \o s
    BY <2>1, ConcatProperties
  <2>3. q \o Append(s, x) = Append(t, x)
    BY <2>1, <2>2, AppendOfConcat
  <2>4. x \in K => f(q) \o Append(f(s), x) = Append(f(t), x)
    <3>1. PICK v \in Seq(S), w \in Seq(S) : v = f(q) /\ w = f(s)
      BY <1>0, <2>1
    <3>2. v \o Append(w, x) = Append(v \o w, x)
      BY AppendOfConcat
    <3> QED
      BY <2>1, <2>2, <3>1, <3>2
  <2>5. f(Append(t, x)) = f(q) \o f(Append(s, x))
    BY <1>a, <2>1, <2>2, <2>4
  <2> QED
    BY <2>1, <2>3, <2>5
<1>3. H \in SUBSET Seq(S)
  OBVIOUS
<1> HIDE DEF H
<1>4. H = Seq(S)
  BY <1>1, <1>2, <1>3, SequenceInduction
<1>5. f(q \o r) = f(q) \o f(r)
  BY <1>4 DEF H
<1> QED
  BY <1>5 DEF f

LEMMA HeadThenTail ==
  ASSUME NEW S, NEW q \in Seq(S), q # <<>>
  PROVE  /\ Head(q) \in S /\ Tail(q) \in Seq(S) /\ <<Head(q)>> \in Seq(S)
         /\ q = <<Head(q)>> \o Tail(q)
<1>1. Head(q) \in S /\ Tail(q) \in Seq(S) /\ <<Head(q)>> \in Seq(S)
  OBVIOUS
<1>2. q = <<Head(q)>> \o Tail(q)
  OBVIOUS
<1> QED
  BY <1>1, <1>2

\* Taking the first element takes it from what is kept, if it is kept.
LEMMA SelectedHead ==
  ASSUME NEW S, NEW q \in Seq(S), q # <<>>, NEW K
  PROVE  Selected(q, K) =
           IF Head(q) \in K THEN <<Head(q)>> \o Selected(Tail(q), K) ELSE Selected(Tail(q), K)
<1>1. PICK h \in S, t \in Seq(S), e \in Seq(S) :
        h = Head(q) /\ t = Tail(q) /\ e = <<h>> /\ q = e \o t
  BY HeadThenTail
<1>2. Selected(q, K) = Selected(e, K) \o Selected(t, K)
  <2>1. Selected(e \o t, K) = Selected(e, K) \o Selected(t, K)
    BY SelectedConcat
  <2> QED
    BY <1>1, <2>1
<1>3. Selected(e, K) = IF h \in K THEN <<h>> ELSE <<>>
  <2>1. PICK z \in Seq(S) : z = <<>>
    BY EmptySeq
  <2>2. e = Append(z, h)
    BY <1>1, <2>1
  <2>3. Selected(e, K) = IF h \in K THEN Append(Selected(z, K), h) ELSE Selected(z, K)
    BY <2>2, SelectedAppend
  <2> QED
    BY <1>1, <2>1, <2>2, <2>3, SelectedOfNone
<1>4. PICK u \in Seq(S) : u = Selected(t, K)
  BY SelectedInSeq
<1>5. <<>> \o u = u
  BY ConcatEmptySeq
<1> QED
  BY <1>1, <1>2, <1>3, <1>4, <1>5

\* f holds elements of q in the order they have in q.
InOrder(q, f) ==
  /\ \A a \in DOMAIN f : \E k \in DOMAIN q : q[k] = f[a]
  /\ \A a, b \in DOMAIN f : a < b => \E k, l \in DOMAIN q : k < l /\ q[k] = f[a] /\ q[l] = f[b]

LEMMA Appended ==
  ASSUME NEW S, NEW q \in Seq(S), NEW x \in S
  PROVE  /\ Len(q) \in Nat /\ DOMAIN q = 1 .. Len(q)
         /\ DOMAIN Append(q, x) = 1 .. (Len(q) + 1)
         /\ Append(q, x)[Len(q) + 1] = x
         /\ \A k \in DOMAIN q : Append(q, x)[k] = q[k]
BY AppendProperties, LenProperties

LEMMA InOrderSkip ==
  ASSUME NEW S, NEW q \in Seq(S), NEW f \in Seq(S), NEW x \in S, InOrder(q, f)
  PROVE  InOrder(Append(q, x), f)
<1> DEFINE p == Append(q, x)
<1>1. \A k \in DOMAIN q : k \in DOMAIN p /\ p[k] = q[k]
  BY Appended
<1> HIDE DEF p
<1>2. InOrder(p, f)
  BY <1>1 DEF InOrder
<1> QED
  BY <1>2 DEF p

LEMMA InOrderTake ==
  ASSUME NEW S, NEW q \in Seq(S), NEW f \in Seq(S), NEW x \in S, InOrder(q, f)
  PROVE  InOrder(Append(q, x), Append(f, x))
<1> DEFINE p == Append(q, x)
           g == Append(f, x)
<1>1. /\ Len(q) \in Nat /\ DOMAIN q = 1 .. Len(q) /\ DOMAIN p = 1 .. (Len(q) + 1)
      /\ p[Len(q) + 1] = x /\ \A k \in DOMAIN q : p[k] = q[k]
  BY Appended
<1>2. /\ Len(f) \in Nat /\ DOMAIN f = 1 .. Len(f) /\ DOMAIN g = 1 .. (Len(f) + 1)
      /\ g[Len(f) + 1] = x /\ \A k \in DOMAIN f : g[k] = f[k]
  BY Appended
<1> HIDE DEF p, g
<1>3. \A a \in DOMAIN g : \E k \in DOMAIN p : p[k] = g[a]
  BY <1>1, <1>2 DEF InOrder
<1>4. ASSUME NEW a \in DOMAIN g, NEW b \in DOMAIN g, a < b
      PROVE  \E k, l \in DOMAIN p : k < l /\ p[k] = g[a] /\ p[l] = g[b]
  <2>1. a \in DOMAIN f
    BY <1>2, <1>4
  <2>2. CASE b \in DOMAIN f
    <3>1. PICK k, l \in DOMAIN q : k < l /\ q[k] = f[a] /\ q[l] = f[b]
      BY <1>4, <2>1, <2>2 DEF InOrder
    <3> QED
      BY <1>1, <1>2, <2>1, <2>2, <3>1
  <2>3. CASE b = Len(f) + 1
    <3>1. PICK k \in DOMAIN q : q[k] = f[a]
      BY <2>1 DEF InOrder
    <3>2. k \in DOMAIN p /\ Len(q) + 1 \in DOMAIN p /\ k < Len(q) + 1
      BY <1>1
    <3> QED
      BY <1>1, <1>2, <2>1, <2>3, <3>1, <3>2
  <2> QED
    BY <1>2, <2>2, <2>3
<1>5. InOrder(p, g)
  BY <1>3, <1>4 DEF InOrder
<1> QED
  BY <1>5 DEF p, g

\* What is kept is in its old order.
LEMMA SelectedInOrder ==
  ASSUME NEW S, NEW q \in Seq(S), NEW K
  PROVE  InOrder(q, Selected(q, K))
<1> DEFINE H == {s \in Seq(S) : InOrder(s, Selected(s, K))}
<1>1. <<>> \in H
  BY SelectedOfNone, EmptySeq DEF InOrder
<1>2. ASSUME NEW s \in H, NEW x \in S PROVE Append(s, x) \in H
  <2>1. PICK f \in Seq(S) : f = Selected(s, K)
    BY SelectedInSeq
  <2>2. Selected(Append(s, x), K) = IF x \in K THEN Append(f, x) ELSE f
    BY <2>1, SelectedAppend
  <2>3. InOrder(s, f)
    BY <2>1
  <2>4. InOrder(Append(s, x), f) /\ InOrder(Append(s, x), Append(f, x))
    BY <2>3, InOrderSkip, InOrderTake
  <2>5. Append(s, x) \in Seq(S)
    BY AppendProperties
  <2> QED
    BY <2>2, <2>4, <2>5
<1>3. H \in SUBSET Seq(S)
  OBVIOUS
<1> HIDE DEF H
<1>4. H = Seq(S)
  BY <1>1, <1>2, <1>3, SequenceInduction
<1> QED
  BY <1>4 DEF H
=============================================================================
