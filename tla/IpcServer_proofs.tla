--------------------------- MODULE IpcServer_proofs ---------------------------
(***************************************************************************)
(* The transport, for any number of messages, requests and connections and *)
(* any room in the kernel: types, what is on its way to Emacs, the         *)
(* requests dispatched, and that it implements the stream of messages of   *)
(* MessageStream.  None of this is inductive alone: Inv, at the end, is.   *)
(***************************************************************************)
EXTENDS IpcServer, Selection_proofs

----------------------------------------------------------------------------
(* Frames and the messages whose body is among some halves.                *)

\* What the compositor sends.
AllMsgs == {Connected} \cup Msgs

\* The messages of halves, one by one.
LEMMA MsgsOfType ==
  ASSUME NEW S, NEW M, \A h \in S : h.msg \in M, NEW q \in Seq(S)
  PROVE  /\ MsgsOf(q) \in Seq(M) /\ Len(MsgsOf(q)) = Len(q)
         /\ \A i \in 1 .. Len(q) : MsgsOf(q)[i] = q[i].msg
BY DEF MsgsOf

LEMMA Concatenated ==
  ASSUME NEW S, NEW q \in Seq(S), NEW r \in Seq(S)
  PROVE  /\ Len(q) \in Nat /\ Len(r) \in Nat /\ q \o r \in Seq(S) /\ Len(q \o r) = Len(q) + Len(r)
         /\ \A i \in 1 .. Len(q) : (q \o r)[i] = q[i]
         /\ \A i \in (Len(q) + 1) .. (Len(q) + Len(r)) : (q \o r)[i] = r[i - Len(q)]
OBVIOUS

LEMMA AppendsOne ==
  ASSUME NEW S, NEW q \in Seq(S), NEW x
  PROVE  /\ Len(q) \in Nat /\ Len(Append(q, x)) = Len(q) + 1
         /\ \A i \in 1 .. Len(q) : Append(q, x)[i] = q[i]
         /\ Append(q, x)[Len(q) + 1] = x
OBVIOUS

Associate(x, y, z) == (x \o y) \o z = x \o (y \o z)

LEMMA AllAssociate == \A S : \A x, y, z \in Seq(S) : Associate(x, y, z)
BY ConcatAssociative DEF Associate

LEMMA MsgsOfConcat ==
  ASSUME NEW S, NEW q \in Seq(S), NEW r \in Seq(S)
  PROVE  MsgsOf(q \o r) = MsgsOf(q) \o MsgsOf(r)
<1> DEFINE M == {h.msg : h \in S}
           m == Len(q)
           n == Len(r)
           a == q \o r
           f == MsgsOf(q)
           g == MsgsOf(r)
           b == MsgsOf(a)
           e == f \o g
<1>m. \A h \in S : h.msg \in M
  OBVIOUS
<1> HIDE DEF M
<1>1. /\ m \in Nat /\ n \in Nat /\ a \in Seq(S) /\ Len(a) = m + n
      /\ \A i \in 1 .. m : a[i] = q[i]
      /\ \A i \in (m + 1) .. (m + n) : a[i] = r[i - m]
  BY Concatenated
<1>2. f \in Seq(M) /\ Len(f) = m /\ \A i \in 1 .. m : f[i] = q[i].msg
  BY <1>m, MsgsOfType
<1>3. g \in Seq(M) /\ Len(g) = n /\ \A i \in 1 .. n : g[i] = r[i].msg
  BY <1>m, MsgsOfType
<1>4. b \in Seq(M) /\ Len(b) = Len(a) /\ \A i \in 1 .. Len(a) : b[i] = a[i].msg
  <2>1. a \in Seq(S)
    BY <1>1
  <2> HIDE DEF a
  <2> QED
    BY <1>m, <2>1, MsgsOfType
<1>5. /\ e \in Seq(M) /\ Len(e) = Len(f) + Len(g)
      /\ \A i \in 1 .. Len(f) : e[i] = f[i]
      /\ \A i \in (Len(f) + 1) .. (Len(f) + Len(g)) : e[i] = g[i - Len(f)]
  <2>1. f \in Seq(M) /\ g \in Seq(M)
    BY <1>2, <1>3
  <2> HIDE DEF f, g
  <2> QED
    BY <2>1, Concatenated
<1> HIDE DEF m, n, a, f, g, b, e
<1>6. ASSUME NEW i \in 1 .. (m + n) PROVE b[i] = e[i]
  <2>0. /\ \A j \in 1 .. m : e[j] = f[j]
        /\ \A j \in (m + 1) .. (m + n) : e[j] = g[j - m]
    BY <1>2, <1>3, <1>5, Zenon
  <2>a. b[i] = a[i].msg
    BY <1>1, <1>4, Zenon
  <2>1. CASE i \in 1 .. m
    <3>1. a[i] = q[i] /\ e[i] = f[i] /\ f[i] = q[i].msg
      BY <2>0, <2>1, <1>1, <1>2, Zenon
    <3> QED
      BY <2>a, <3>1
  <2>2. CASE i \in (m + 1) .. (m + n)
    <3>1. i - m \in 1 .. n
      BY <2>2, <1>1
    <3>2. b[i] = a[i].msg
      BY <2>a
    <3>3. a[i] = r[i - m]
      BY <2>2, <1>1
    <3>4. e[i] = g[i - m]
      BY <2>0, <2>2
    <3>5. g[i - m] = r[i - m].msg
      BY <3>1, <1>3
    <3> QED
      BY <3>2, <3>3, <3>4, <3>5
  <2> QED
    BY <2>1, <2>2, <1>1
<1>7. b = e
  BY <1>1, <1>2, <1>3, <1>4, <1>5, <1>6, SeqEqual
<1> QED
  BY <1>7 DEF a, f, g, b, e

LEMMA MsgsOfNone == MsgsOf(<<>>) = <<>>
BY DEF MsgsOf

LEMMA MsgsOfOne ==
  ASSUME NEW h
  PROVE  MsgsOf(<<h>>) = <<h.msg>>
BY DEF MsgsOf

----------------------------------------------------------------------------

Body == [msg : AllMsgs, part : {"body"}]

LEMMA BodyOf ==
  ASSUME NEW h \in Half
  PROVE  /\ h \in Body <=> h.part = "body"
         /\ h.msg \in AllMsgs
BY DEF Half, Body, Parts, AllMsgs

LEMMA BodiesIs == \A q : Bodies(q) = MsgsOf(Selected(q, Body))
BY DEF Bodies, Body, AllMsgs

LEMMA BodiesType ==
  ASSUME NEW q \in Seq(Half)
  PROVE  Bodies(q) \in Seq(AllMsgs)
<1>1. Selected(q, Body) \in Seq(Half)
  BY SelectedInSeq
<1>2. \A h \in Half : h.msg \in AllMsgs
  BY BodyOf
<1> QED
  BY <1>1, <1>2, MsgsOfType, BodiesIs

LEMMA BodiesConcat ==
  ASSUME NEW q \in Seq(Half), NEW r \in Seq(Half)
  PROVE  Bodies(q \o r) = Bodies(q) \o Bodies(r)
<1>1. Selected(q \o r, Body) = Selected(q, Body) \o Selected(r, Body)
  BY SelectedConcat
<1>2. Selected(q, Body) \in Seq(Half) /\ Selected(r, Body) \in Seq(Half)
  BY SelectedInSeq
<1> QED
  BY <1>1, <1>2, MsgsOfConcat, BodiesIs

LEMMA BodiesOfNone == Bodies(<<>>) = <<>>
BY SelectedOfNone, MsgsOfNone, BodiesIs

LEMMA BodiesHead ==
  ASSUME NEW q \in Seq(Half), q # <<>>
  PROVE  Bodies(q) = IF Head(q).part = "body" THEN <<Head(q).msg>> \o Bodies(Tail(q))
                     ELSE Bodies(Tail(q))
<1>1. PICK h \in Half, t \in Seq(Half), e \in Seq(Half) : h = Head(q) /\ t = Tail(q) /\ e = <<h>>
  BY HeadThenTail
<1>2. Selected(q, Body) = IF h \in Body THEN <<h>> \o Selected(t, Body) ELSE Selected(t, Body)
  BY <1>1, SelectedHead
<1>3. Selected(t, Body) \in Seq(Half)
  BY SelectedInSeq
<1>4. h \in Body => MsgsOf(Selected(q, Body)) = <<h.msg>> \o MsgsOf(Selected(t, Body))
  <2>1. MsgsOf(e \o Selected(t, Body)) = MsgsOf(e) \o MsgsOf(Selected(t, Body))
    BY <1>3, MsgsOfConcat
  <2> QED
    BY <1>1, <1>2, <2>1, MsgsOfOne
<1> QED
  BY <1>1, <1>2, <1>4, BodyOf, BodiesIs

LEMMA BodiesAppend ==
  ASSUME NEW q \in Seq(Half), NEW h \in Half
  PROVE  Bodies(Append(q, h)) = IF h.part = "body" THEN Append(Bodies(q), h.msg) ELSE Bodies(q)
<1>1. PICK s \in Seq(Half) : s = Selected(q, Body)
  BY SelectedInSeq
<1>2. Selected(Append(q, h), Body) = IF h \in Body THEN Append(s, h) ELSE s
  BY <1>1, SelectedAppend
<1>3. MsgsOf(Append(s, h)) = Append(MsgsOf(s), h.msg)
  <2>1. <<h>> \in Seq(Half) /\ Append(s, h) = s \o <<h>>
    OBVIOUS
  <2>2. PICK b \in Seq(AllMsgs) : b = MsgsOf(s)
    BY <1>1, MsgsOfType, BodyOf
  <2>3. MsgsOf(s \o <<h>>) = b \o <<h.msg>>
    BY <2>1, <2>2, MsgsOfConcat, MsgsOfOne
  <2>4. b \o <<h.msg>> = Append(b, h.msg)
    BY BodyOf
  <2> QED
    BY <2>1, <2>2, <2>3, <2>4
<1> QED
  BY <1>1, <1>2, <1>3, BodyOf, BodiesIs

\* A function on 1 .. k with values in a set is a sequence.
LEMMA FunctionIsSeq ==
  ASSUME NEW S, NEW k \in Nat, NEW f, f = [i \in 1 .. k |-> f[i]], \A i \in 1 .. k : f[i] \in S
  PROVE  f \in Seq(S) /\ Len(f) = k
OBVIOUS

HalfOf(m, i) ==
  [msg |-> m[(i + 1) \div 2], part |-> IF i % 2 = 1 THEN "header" ELSE "body"]

LEMMA FramesIs ==
  ASSUME NEW m \in Seq(AllMsgs)
  PROVE  /\ Frames(m) \in Seq(Half) /\ Len(Frames(m)) = 2 * Len(m)
         /\ \A i \in 1 .. 2 * Len(m) : Frames(m)[i] = HalfOf(m, i)
<1>1. PICK n \in Nat : n = Len(m)
  OBVIOUS
<1>2. \A i \in 1 .. 2 * n : (i + 1) \div 2 \in 1 .. n
  BY <1>1
<1>3. \A i \in 1 .. 2 * n : m[(i + 1) \div 2] \in AllMsgs
  BY <1>1, <1>2
<1>4. \A i \in 1 .. 2 * n : HalfOf(m, i) \in Half
  BY <1>3 DEF HalfOf, Half, Parts, AllMsgs
<1>5. Frames(m) = [i \in 1 .. 2 * n |-> HalfOf(m, i)]
  BY <1>1, Zenon DEF Frames, HalfOf
<1> DEFINE f == Frames(m)
<1>6. /\ f = [i \in 1 .. 2 * n |-> f[i]]
      /\ \A i \in 1 .. 2 * n : f[i] = HalfOf(m, i)
  BY <1>5
<1>7. \A i \in 1 .. 2 * n : f[i] \in Half
  BY <1>4, <1>6
<1>8. 2 * n \in Nat
  BY <1>1
<1> HIDE DEF f
<1>9. f \in Seq(Half) /\ Len(f) = 2 * n
  BY <1>6, <1>7, <1>8, FunctionIsSeq
<1> QED
  BY <1>1, <1>6, <1>9 DEF f

\* A frame is a header and a body, in this order.
LEMMA FramesAppend ==
  ASSUME NEW m \in Seq(AllMsgs), NEW x \in AllMsgs
  PROVE  Frames(Append(m, x)) = Append(Append(Frames(m), [msg |-> x, part |-> "header"]),
                                       [msg |-> x, part |-> "body"])
<1>a. /\ Len(m) \in Nat /\ Append(m, x) \in Seq(AllMsgs) /\ Len(Append(m, x)) = Len(m) + 1
      /\ Append(m, x)[Len(m) + 1] = x /\ \A i \in 1 .. Len(m) : Append(m, x)[i] = m[i]
  OBVIOUS
<1>1. PICK n \in Nat, a \in Seq(AllMsgs) :
        /\ n = Len(m) /\ a = Append(m, x) /\ Len(a) = n + 1 /\ a[n + 1] = x
        /\ \A i \in 1 .. n : a[i] = m[i]
  BY <1>a, Zenon
<1>2. PICK h \in Half, b \in Half : h = [msg |-> x, part |-> "header"] /\ b = [msg |-> x, part |-> "body"]
  BY DEF Half, Parts, AllMsgs
<1>3. PICK f \in Seq(Half) :
        f = Frames(m) /\ Len(f) = 2 * n /\ \A i \in 1 .. 2 * n : f[i] = HalfOf(m, i)
  BY <1>1, FramesIs
<1>4. PICK g \in Seq(Half) :
        g = Frames(a) /\ Len(g) = 2 * n + 2 /\ \A i \in 1 .. (2 * n + 2) : g[i] = HalfOf(a, i)
  <2>1. 2 * Len(a) = 2 * n + 2
    BY <1>1
  <2>2. /\ Frames(a) \in Seq(Half) /\ Len(Frames(a)) = 2 * n + 2
        /\ \A i \in 1 .. (2 * n + 2) : Frames(a)[i] = HalfOf(a, i)
    BY <2>1, FramesIs
  <2> QED
    BY <2>2
<1>b. \A i \in 1 .. 2 * n : (i + 1) \div 2 \in 1 .. n
  OBVIOUS
<1>c. /\ ((2 * n + 1) + 1) \div 2 = n + 1 /\ ((2 * n + 2) + 1) \div 2 = n + 1
      /\ (2 * n + 1) % 2 = 1 /\ (2 * n + 2) % 2 = 0
  OBVIOUS
<1>5. /\ \A i \in 1 .. (2 * n + 2) : i \in 1 .. 2 * n \/ i = 2 * n + 1 \/ i = 2 * n + 2
      /\ 2 * n + 1 \in 1 .. (2 * n + 2) /\ 2 * n + 2 \in 1 .. (2 * n + 2)
      /\ 1 .. 2 * n \subseteq 1 .. (2 * n + 2)
  OBVIOUS
<1>6. HalfOf(a, 2 * n + 1) = h
  BY <1>1, <1>2, <1>c DEF HalfOf
<1>7. HalfOf(a, 2 * n + 2) = b
  BY <1>1, <1>2, <1>c DEF HalfOf
<1>8. ASSUME NEW i \in 1 .. 2 * n PROVE HalfOf(a, i) = HalfOf(m, i)
  <2>1. a[(i + 1) \div 2] = m[(i + 1) \div 2]
    BY <1>1, <1>b
  <2> QED
    BY <2>1 DEF HalfOf
<1>9. PICK r \in Seq(Half) :
        /\ r = Append(Append(f, h), b) /\ Len(r) = 2 * n + 2
        /\ r[2 * n + 1] = h /\ r[2 * n + 2] = b /\ \A i \in 1 .. 2 * n : r[i] = f[i]
  <2>1. PICK u \in Seq(Half) :
          /\ u = Append(f, h) /\ Len(u) = 2 * n + 1 /\ u[2 * n + 1] = h
          /\ \A i \in 1 .. 2 * n : u[i] = f[i]
    <3>1. /\ Append(f, h) \in Seq(Half) /\ Len(Append(f, h)) = 2 * n + 1
          /\ Append(f, h)[2 * n + 1] = h /\ \A i \in 1 .. 2 * n : Append(f, h)[i] = f[i]
      BY <1>3
    <3> QED
      BY <3>1, Zenon
  <2>2. /\ Append(u, b) \in Seq(Half) /\ Len(Append(u, b)) = 2 * n + 2
        /\ Append(u, b)[2 * n + 2] = b /\ \A i \in 1 .. (2 * n + 1) : Append(u, b)[i] = u[i]
    BY <2>1
  <2>3. 2 * n + 1 \in 1 .. (2 * n + 1) /\ 1 .. 2 * n \subseteq 1 .. (2 * n + 1)
    OBVIOUS
  <2> QED
    BY <2>1, <2>2, <2>3, Zenon
<1>10. \A i \in 1 .. (2 * n + 2) : g[i] = r[i]
  BY <1>3, <1>4, <1>5, <1>6, <1>7, <1>8, <1>9
<1>11. g = r
  BY <1>4, <1>9, <1>10, SeqEqual
<1> QED
  BY <1>1, <1>2, <1>3, <1>4, <1>9, <1>11

\* What a reader makes of the frames of some messages is the messages.
LEMMA FramesOf ==
  ASSUME NEW m \in Seq(AllMsgs)
  PROVE  Frames(m) \in Seq(Half) /\ Bodies(Frames(m)) = m
<1> DEFINE H == {s \in Seq(AllMsgs) : Frames(s) \in Seq(Half) /\ Bodies(Frames(s)) = s}
<1>1. <<>> \in H
  <2>1. <<>> \in Seq(AllMsgs) /\ Len(<<>>) = 0
    OBVIOUS
  <2>2. Frames(<<>>) \in Seq(Half) /\ Len(Frames(<<>>)) = 2 * 0
    BY <2>1, FramesIs
  <2>3. Frames(<<>>) = <<>>
    BY <2>2
  <2> QED
    BY <2>1, <2>2, <2>3, BodiesOfNone
<1>2. ASSUME NEW s \in H, NEW x \in AllMsgs PROVE Append(s, x) \in H
  <2>1. PICK h \in Half, b \in Half : h = [msg |-> x, part |-> "header"] /\ b = [msg |-> x, part |-> "body"]
    BY DEF Half, Parts, AllMsgs
  <2>2. PICK f \in Seq(Half) : f = Frames(s) /\ Bodies(f) = s
    OBVIOUS
  <2>a. h.part = "header" /\ b.part = "body" /\ b.msg = x
    BY <2>1
  <2>b. /\ Append(f, h) \in Seq(Half)
        /\ \A q \in Seq(Half) : Append(q, b) \in Seq(Half)
    OBVIOUS
  <2>3. PICK g \in Seq(Half) : g = Append(f, h) /\ Bodies(g) = s
    <3>1. Bodies(Append(f, h)) = s
      BY <2>a, <2>2, BodiesAppend
    <3> QED
      BY <2>b, <3>1
  <2>4. Append(g, b) \in Seq(Half) /\ Bodies(Append(g, b)) = Append(s, x)
    <3>1. Bodies(Append(g, b)) = Append(s, x)
      BY <2>a, <2>3, BodiesAppend
    <3> QED
      BY <2>b, <3>1
  <2>5. Frames(Append(s, x)) = Append(g, b)
    BY <2>1, <2>2, <2>3, FramesAppend
  <2>6. Append(s, x) \in Seq(AllMsgs)
    OBVIOUS
  <2> QED
    BY <2>4, <2>5, <2>6
<1>3. H \in SUBSET Seq(AllMsgs)
  OBVIOUS
<1> HIDE DEF H
<1>4. H = Seq(AllMsgs)
  BY <1>1, <1>2, <1>3, SequenceInduction
<1> QED
  BY <1>4 DEF H

----------------------------------------------------------------------------
(* Requests: what Emacs writes is made of whole frames but for the last,   *)
(* headers at odd places and bodies at even ones.                          *)

Alternates(q) == \A i \in 1 .. Len(q) : q[i].part = "body" <=> i % 2 = 0

\* The halves that complete a request of some kinds.
ReqBody(kinds) == [msg : Reqs, kind : kinds, part : {"body"}]

LEMMA ReqBodyOf ==
  ASSUME NEW h \in ReqHalf
  PROVE  /\ h.msg \in Reqs
         /\ h \in ReqBody({"ok"}) <=> h.part = "body" /\ h.kind = "ok"
         /\ h \in ReqBody(Kinds) <=> h.part = "body"
BY DEF ReqHalf, ReqBody, Parts, Kinds

LEMMA CompletedIs ==
  /\ \A q : Decoded(q) = MsgsOf(Selected(q, ReqBody({"ok"})))
  /\ \A q : Completed(q, Kinds) = MsgsOf(Selected(q, ReqBody(Kinds)))
BY DEF Decoded, Completed, ReqBody

LEMMA DecodedType ==
  ASSUME NEW q \in Seq(ReqHalf)
  PROVE  Decoded(q) \in Seq(Reqs)
<1>1. Selected(q, ReqBody({"ok"})) \in Seq(ReqHalf)
  BY SelectedInSeq
<1>2. \A h \in ReqHalf : h.msg \in Reqs
  BY ReqBodyOf
<1> QED
  BY <1>1, <1>2, MsgsOfType, CompletedIs

LEMMA DecodedConcat ==
  ASSUME NEW q \in Seq(ReqHalf), NEW r \in Seq(ReqHalf)
  PROVE  Decoded(q \o r) = Decoded(q) \o Decoded(r)
<1> DEFINE K == ReqBody({"ok"})
<1>1. Selected(q \o r, K) = Selected(q, K) \o Selected(r, K)
  BY SelectedConcat
<1>2. Selected(q, K) \in Seq(ReqHalf) /\ Selected(r, K) \in Seq(ReqHalf)
  BY SelectedInSeq
<1> QED
  BY <1>1, <1>2, MsgsOfConcat, CompletedIs

LEMMA DecodedOne ==
  ASSUME NEW h \in ReqHalf
  PROVE  Decoded(<<h>>) = IF h.part = "body" /\ h.kind = "ok" THEN <<h.msg>> ELSE <<>>
<1> DEFINE K == ReqBody({"ok"})
<1>b. <<>> \in Seq(ReqHalf)
  OBVIOUS
<1>1. PICK e \in Seq(ReqHalf) : e = <<>>
  BY <1>b, Zenon
<1>a. Append(e, h) = <<h>>
  BY <1>1
<1>2. Selected(e, K) = e
  BY <1>1, SelectedOfNone
<1>3. Selected(Append(e, h), K) = IF h \in K THEN Append(e, h) ELSE e
  BY <1>2, SelectedAppend
<1>4. Decoded(<<h>>) = MsgsOf(IF h \in K THEN <<h>> ELSE <<>>)
  BY <1>1, <1>a, <1>3, CompletedIs
<1> QED
  BY <1>4, ReqBodyOf, MsgsOfOne, MsgsOfNone

LEMMA DecodedOfNone == Decoded(<<>>) = <<>>
BY SelectedOfNone, MsgsOfNone, CompletedIs

\* Halves that alternate, from a header on, are frames and at most a header.
LEMMA AlternatesAppend ==
  ASSUME NEW q \in Seq(ReqHalf), NEW h \in ReqHalf
  PROVE  Alternates(Append(q, h)) <=> /\ Alternates(q)
                                      /\ h.part = "body" <=> (Len(q) + 1) % 2 = 0
<1> DEFINE r == Append(q, h)
           n == Len(q)
<1>1. n \in Nat /\ Len(r) = n + 1 /\ r[n + 1] = h /\ \A i \in 1 .. n : r[i] = q[i]
  OBVIOUS
<1> HIDE DEF r, n
<1>2. /\ \A i \in 1 .. (n + 1) : i \in 1 .. n \/ i = n + 1
      /\ \A i \in 1 .. n : i \in 1 .. (n + 1)
      /\ n + 1 \in 1 .. (n + 1)
  BY <1>1
<1>3. Alternates(r) <=> \A i \in 1 .. (n + 1) : r[i].part = "body" <=> i % 2 = 0
  BY <1>1 DEF Alternates
<1>4. Alternates(q) <=> \A i \in 1 .. n : r[i].part = "body" <=> i % 2 = 0
  BY <1>1 DEF Alternates, n
<1>5. Alternates(r) <=> Alternates(q) /\ (h.part = "body" <=> (n + 1) % 2 = 0)
  BY <1>1, <1>2, <1>3, <1>4
<1> QED
  BY <1>5 DEF r, n

LEMMA CompletedHalf ==
  ASSUME NEW q \in Seq(ReqHalf), Alternates(q)
  PROVE  2 * Len(Completed(q, Kinds)) = Len(q) - (Len(q) % 2)
<1> DEFINE f(s) == Selected(s, ReqBody(Kinds))
           H == {s \in Seq(ReqHalf) : Alternates(s) => 2 * Len(f(s)) = Len(s) - (Len(s) % 2)}
<1>1. <<>> \in H
  <2>1. f(<<>>) = <<>>
    BY SelectedOfNone
  <2> QED
    BY <2>1
<1>2. ASSUME NEW s \in H, NEW x \in ReqHalf PROVE Append(s, x) \in H
  <2> SUFFICES ASSUME Alternates(Append(s, x))
      PROVE  2 * Len(f(Append(s, x))) = Len(Append(s, x)) - (Len(Append(s, x)) % 2)
    OBVIOUS
  <2>1. Alternates(s) /\ (x.part = "body" <=> (Len(s) + 1) % 2 = 0)
    BY AlternatesAppend
  <2>2. PICK g \in Seq(ReqHalf) : g = f(s)
    BY SelectedInSeq
  <2>3. f(Append(s, x)) = IF x.part = "body" THEN Append(g, x) ELSE g
    BY <2>2, SelectedAppend, ReqBodyOf
  <2>4. 2 * Len(g) = Len(s) - (Len(s) % 2)
    BY <2>1, <2>2
  <2>5. PICK n \in Nat, k \in Nat : n = Len(s) /\ k = Len(g)
    OBVIOUS
  <2>6. Len(Append(s, x)) = n + 1 /\ Len(Append(g, x)) = k + 1
    BY <2>5
  <2>7. Len(f(Append(s, x))) = IF (n + 1) % 2 = 0 THEN k + 1 ELSE k
    BY <2>1, <2>3, <2>5, <2>6
  <2>8. 2 * (IF (n + 1) % 2 = 0 THEN k + 1 ELSE k) = (n + 1) - ((n + 1) % 2)
    <3>1. 2 * k = n - (n % 2)
      BY <2>4, <2>5
    <3>2. CASE (n + 1) % 2 = 0
      <4>1. n % 2 = 1
        BY <3>2
      <4> QED
        BY <3>1, <3>2, <4>1
    <3>3. CASE (n + 1) % 2 # 0
      <4>1. n % 2 = 0 /\ (n + 1) % 2 = 1
        BY <3>3
      <4> QED
        BY <3>1, <3>3, <4>1
    <3> QED
      BY <3>2, <3>3
  <2> QED
    BY <2>6, <2>7, <2>8
<1>3. H \in SUBSET Seq(ReqHalf)
  OBVIOUS
<1> HIDE DEF H
<1>4. H = Seq(ReqHalf)
  BY <1>1, <1>2, <1>3, SequenceInduction
<1>5. 2 * Len(f(q)) = Len(q) - (Len(q) % 2)
  BY <1>4 DEF H
<1>6. f(q) \in Seq(ReqHalf) /\ \A h \in ReqHalf : h.msg \in Reqs
  BY SelectedInSeq, ReqBodyOf
<1>7. Len(MsgsOf(f(q))) = Len(f(q))
  BY <1>6, MsgsOfType
<1> QED
  BY <1>5, <1>7, CompletedIs

\* Decoding leaves at most a header behind.
LEMMA UndecodedIs ==
  ASSUME NEW q \in Seq(ReqHalf), Alternates(q)
  PROVE  /\ Undecoded(q) \in Seq(ReqHalf)
         /\ Len(Undecoded(q)) = Len(q) % 2
         /\ Alternates(Undecoded(q))
         /\ Decoded(Undecoded(q)) = <<>>
<1>1. PICK n \in Nat : n = Len(q)
  OBVIOUS
<1>2. Undecoded(q) = SubSeq(q, (n - (n % 2)) + 1, n)
  BY <1>1, CompletedHalf DEF Undecoded
<1>3. CASE n % 2 = 0
  <2>1. SubSeq(q, n + 1, n) = <<>>
    BY <1>1, SubSeqEmpty
  <2>2. Undecoded(q) = <<>>
    <3>1. (n - (n % 2)) + 1 = n + 1
      BY <1>3
    <3> QED
      BY <1>2, <2>1, <3>1
  <2> QED
    BY <1>1, <1>3, <2>2, DecodedOfNone DEF Alternates
<1>4. CASE n % 2 # 0
  <2>1. n % 2 = 1 /\ n \in 1 .. n
    BY <1>4
  <2>2. q[n] \in ReqHalf /\ q[n].part # "body"
    BY <1>1, <2>1 DEF Alternates
  <2>3. PICK h \in ReqHalf : h = q[n] /\ h.part # "body"
    BY <2>2
  <2>4. SubSeq(q, n, n) = <<h>>
    <3>1. q \in Seq(ReqHalf) /\ n \in 1 .. Len(q) /\ n \in n .. Len(q) /\ n + 1 \in Int
      BY <1>1, <2>1
    <3>2. SubSeq(q, n, n) = <<q[n]>> \o SubSeq(q, n + 1, n)
      BY <3>1, SubSeqRecursiveFirst
    <3>3. SubSeq(q, n + 1, n) = <<>>
      BY <3>1, SubSeqEmpty
    <3>4. <<h>> \o <<>> = <<h>>
      OBVIOUS
    <3> QED
      BY <2>3, <3>2, <3>3, <3>4
  <2>5. Undecoded(q) = <<h>>
    <3>1. (n - (n % 2)) + 1 = n
      BY <2>1
    <3> QED
      BY <1>2, <2>4, <3>1
  <2>6. Alternates(<<h>>)
    BY <2>3 DEF Alternates
  <2>7. Decoded(<<h>>) = <<>>
    BY <2>3, DecodedOne
  <2> QED
    BY <1>1, <2>1, <2>5, <2>6, <2>7
<1> QED
  BY <1>3, <1>4

----------------------------------------------------------------------------
(* Messages have one way to take. OneWay is not inductive: the connection  *)
(* accepted next must not be one that was closed before. BacklogInv says   *)
(* that what waits to be accepted is made of connections that are nowhere  *)
(* else.                                                                   *)

\* What waits is made of different connections, none closed, none in use.
BacklogInv ==
  /\ opened \in Nat
  /\ backlog \in Seq(1 .. opened)
  /\ connection \in 0 .. opened
  /\ serverClosed \subseteq 1 .. opened
  /\ None \notin emacsClosed
  /\ \A i \in 1 .. Len(backlog) : backlog[i] \notin serverClosed \cup {connection}
  /\ \A i, j \in 1 .. Len(backlog) : backlog[i] = backlog[j] => i = j

\* The inductive invariant behind OneWay.
WayInv == BacklogInv /\ OneWay

\* What may happen to a connection in use, with Emacs's connections as they are:
\* nothing, or it is closed and both buffers go with it.
Closing ==
  \/ UNCHANGED <<connection, serverClosed>> /\ (connection = None => UNCHANGED <<writeBuf, readBuf>>)
  \/ connection # None /\ Disconnect

\* Steps that leave the listener alone keep the invariant.
LEMMA ClosingKeepsWay ==
  ASSUME WayInv, Closing, UNCHANGED <<opened, backlog>>,
         pending' = pending \/ connection' = None,
         None \notin emacsClosed'
  PROVE  WayInv'
<1>1. CASE UNCHANGED <<connection, serverClosed>>
  BY <1>1 DEF WayInv, BacklogInv, OneWay, Closing, Disconnect
<1>2. CASE connection # None /\ Disconnect
  BY <1>2 DEF WayInv, BacklogInv, OneWay, Disconnect, None
<1> QED
  BY <1>1, <1>2 DEF Closing

\* Accepting takes the first of the backlog, which is nowhere else.
LEMMA AcceptKeepsWay ==
  ASSUME WayInv, Accept
  PROVE  WayInv'
<1> USE DEF WayInv, BacklogInv, OneWay, None
<1> DEFINE c == Head(backlog)
<1>1. /\ backlog # <<>> /\ backlog' = Tail(backlog) /\ connection' = c
      /\ pending' = <<>> /\ UNCHANGED <<opened, emacsClosed>>
      /\ serverClosed' = serverClosed \cup ({connection} \ {None})
  BY DEF Accept, emacs
<1>2. c = backlog[1] /\ Len(backlog) \in Nat \ {0} /\ c \in 1 .. opened
  BY <1>1
<1>3. /\ Len(Tail(backlog)) = Len(backlog) - 1
      /\ \A i \in 1 .. Len(Tail(backlog)) : Tail(backlog)[i] = backlog[i + 1]
      /\ Tail(backlog) \in Seq(1 .. opened)
  BY <1>1
<1>4. BacklogInv'
  BY <1>1, <1>2, <1>3
<1>5. OneWay'
  BY <1>1, <1>2
<1> QED
  BY <1>4, <1>5

\* A connection that cannot be set up is closed at once.
LEMMA AcceptFailsKeepsWay ==
  ASSUME WayInv, AcceptFails
  PROVE  WayInv'
<1> USE DEF WayInv, BacklogInv, OneWay, None
<1> DEFINE c == Head(backlog)
<1>1. /\ backlog # <<>> /\ backlog' = Tail(backlog)
      /\ serverClosed' = serverClosed \cup {c}
      /\ UNCHANGED <<opened, emacsClosed, connection, pending, writeBuf, readBuf>>
  BY DEF AcceptFails, emacs
<1>2. c = backlog[1] /\ Len(backlog) \in Nat \ {0} /\ c \in 1 .. opened
  BY <1>1
<1>3. /\ Len(Tail(backlog)) = Len(backlog) - 1
      /\ \A i \in 1 .. Len(Tail(backlog)) : Tail(backlog)[i] = backlog[i + 1]
      /\ Tail(backlog) \in Seq(1 .. opened)
  BY <1>1
<1>4. \A i \in 1 .. Len(backlog') : backlog'[i] \notin serverClosed' \cup {connection'}
  BY <1>1, <1>2, <1>3
<1>5. \A i, j \in 1 .. Len(backlog') : backlog'[i] = backlog'[j] => i = j
  BY <1>1, <1>2, <1>3
<1>6. c # connection
  BY <1>2
<1>7. serverClosed' \subseteq 1 .. opened'
  BY <1>1, <1>2
<1> QED
  BY <1>1, <1>3, <1>4, <1>5, <1>6, <1>7

\* A new connection waits at the end of the backlog, and is new.
LEMMA ConnectKeepsWay ==
  ASSUME WayInv, Connect
  PROVE  WayInv'
<1> USE DEF WayInv, BacklogInv, OneWay, None
<1>1. /\ opened' = opened + 1 /\ backlog' = Append(backlog, opened + 1)
      /\ UNCHANGED <<connection, pending, writeBuf, readBuf, serverClosed>>
      /\ None \notin emacsClosed'
  BY DEF Connect, Hangup
<1>2. /\ backlog \in Seq(1 .. opened + 1)
      /\ Append(backlog, opened + 1) \in Seq(1 .. opened + 1)
  OBVIOUS
<1>3. /\ Len(backlog') = Len(backlog) + 1
      /\ \A i \in 1 .. Len(backlog) : backlog'[i] = backlog[i] /\ backlog[i] # opened + 1
      /\ backlog'[Len(backlog) + 1] = opened + 1
  BY <1>1
<1>4. BacklogInv'
  BY <1>1, <1>2, <1>3
<1> QED
  BY <1>1, <1>4

LEMMA InitWay == Init => WayInv
BY DEF Init, WayInv, BacklogInv, OneWay, None

LEMMA WayStep ==
  ASSUME WayInv, [Next]_vars
  PROVE  WayInv'
<1>1. CASE Send
  <2>1. Closing /\ UNCHANGED <<opened, backlog>>
    BY <1>1 DEF Send, Closing, emacs, None, Disconnect, WayInv, BacklogInv
  <2>2. pending' = pending \/ connection' = None
    BY <1>1 DEF Send, Disconnect
  <2>3. None \notin emacsClosed'
    BY <1>1 DEF Send, emacs, WayInv, BacklogInv
  <2> QED
    BY <2>1, <2>2, <2>3, ClosingKeepsWay
<1>2. CASE RecvAll
  BY <1>2, ClosingKeepsWay DEF RecvAll, Closing, emacs, WayInv, BacklogInv
<1>3. CASE Flush
  BY <1>3, ClosingKeepsWay DEF Flush, Closing, emacs, WayInv, BacklogInv
<1>4. CASE \/ Leave \/ NoticeClose \/ Read \/ WriteBody
           \/ \E kind \in Kinds : WriteHeader(kind)
           \/ UNCHANGED vars
  <2>1. UNCHANGED <<opened, backlog, connection, serverClosed, pending, writeBuf, readBuf>>
    BY <1>4 DEF Leave, NoticeClose, Read, WriteBody, WriteHeader, server, emacs, vars
  <2>2. None \notin emacsClosed /\ None \notin serverClosed
    BY DEF WayInv, BacklogInv, None
  <2>3. \/ emacsClosed' = emacsClosed
        \/ current # None /\ emacsClosed' = emacsClosed \cup {current}
    BY <1>4, <2>2 DEF Leave, NoticeClose, Read, WriteBody, WriteHeader, Hangup, emacs, vars
  <2>4. None \notin emacsClosed'
    BY <2>2, <2>3
  <2> QED
    BY <2>1, <2>4, ClosingKeepsWay DEF Closing
<1> QED
  BY <1>1, <1>2, <1>3, <1>4, AcceptKeepsWay, AcceptFailsKeepsWay, ConnectKeepsWay
  DEF Next, Compositor, Emacs

----------------------------------------------------------------------------
(* What the kernel takes of a buffer.                                      *)

\* What the kernel takes of a buffer comes first, and what is left follows it.
Split(buf, a, b) == a \in Seq(Half) /\ b \in Seq(Half) /\ buf = a \o b

\* The kernel takes no more than it has room for.
RoomInv == \A c \in Conns : Len(toEmacs[c]) <= SocketRoom

\* What a buffer may become when it is flushed to a connection.
FlushTo(c, buf) ==
  \E a, b \in Seq(Half) :
    /\ Split(buf, a, b)
    /\ toEmacs' = [toEmacs EXCEPT ![c] = @ \o a]
    /\ writeBuf' = b
    /\ Len(toEmacs[c] \o a) <= SocketRoom
    /\ c \in emacsClosed => a = <<>>

LEMMA FlushedIs ==
  ASSUME NEW c \in Conns, NEW buf \in Seq(Half), toEmacs \in [Conns -> Seq(Half)], RoomInv,
         Flushed(c, buf), c \notin emacsClosed
  PROVE  FlushTo(c, buf)
<1>1. PICK room \in Nat, n \in Nat, l \in Nat :
        /\ room = SocketRoom - Len(toEmacs[c]) /\ l = Len(buf)
        /\ n = IF l <= room THEN l ELSE room
  <2>1. Len(toEmacs[c]) \in Nat /\ Len(buf) \in Nat /\ Len(toEmacs[c]) <= SocketRoom
    BY DEF RoomInv
  <2>2. SocketRoom - Len(toEmacs[c]) \in Nat
    BY <2>1, ConstantsAssumption
  <2> DEFINE r == SocketRoom - Len(toEmacs[c])
             k == IF Len(buf) <= r THEN Len(buf) ELSE r
  <2>3. k \in Nat
    BY <2>1, <2>2
  <2> QED
    BY <2>1, <2>2, <2>3, Zenon
<1> DEFINE a == SubSeq(buf, 1, n)
           b == SubSeq(buf, n + 1, l)
<1>2. toEmacs' = [toEmacs EXCEPT ![c] = @ \o a] /\ writeBuf' = b
  BY <1>1, Zenon DEF Flushed
<1>3. n \in 0 .. l /\ n <= room
  BY <1>1
<1>4. /\ \A i \in 1 .. n : buf[i] \in Half
      /\ \A i \in (n + 1) .. l : buf[i] \in Half
  BY <1>1, <1>3
<1>5. a \in Seq(Half) /\ Len(a) = n
  BY <1>3, <1>4, SubSeqProperties
<1>6. b \in Seq(Half)
  BY <1>1, <1>3, <1>4, SubSeqProperties
<1>7. buf = a \o b
  <2>1. 1 \in 1 .. (Len(buf) + 1) /\ n \in (1 - 1) .. Len(buf) /\ l \in n .. Len(buf)
    BY <1>1, <1>3
  <2>2. SubSeq(buf, 1, n) \o SubSeq(buf, n + 1, l) = SubSeq(buf, 1, l)
    BY <2>1, ConcatAdjacentSubSeq
  <2>3. SubSeq(buf, 1, l) = buf
    BY <1>1, SubSeqFull
  <2> QED
    BY <2>2, <2>3
<1>8. Len(toEmacs[c] \o a) <= SocketRoom
  <2>1. toEmacs[c] \in Seq(Half)
    OBVIOUS
  <2>2. Len(toEmacs[c] \o a) = Len(toEmacs[c]) + n
    BY <2>1, <1>5, Concatenated
  <2> QED
    BY <1>1, <1>3, <2>1, <2>2, ConstantsAssumption
<1> HIDE DEF a, b
<1> QED
  BY <1>2, <1>5, <1>6, <1>7, <1>8 DEF FlushTo, Split

----------------------------------------------------------------------------
(* What the compositor's handlers do to the buffers and the kernel.        *)

LEMMA FramesOfOne ==
  ASSUME NEW m \in AllMsgs
  PROVE  Frames(<<m>>) \in Seq(Half) /\ Bodies(Frames(<<m>>)) = <<m>>
<1>1. <<m>> \in Seq(AllMsgs)
  OBVIOUS
<1> QED
  BY <1>1, FramesOf

LEMMA Greeted ==
  ASSUME pending \in Seq(Msgs)
  PROVE  /\ <<Connected>> \o pending \in Seq(AllMsgs)
         /\ Frames(<<Connected>> \o pending) \in Seq(Half)
         /\ Bodies(Frames(<<Connected>> \o pending)) = <<Connected>> \o pending
<1>1. <<Connected>> \in Seq(AllMsgs) /\ pending \in Seq(AllMsgs)
  BY DEF AllMsgs
<1>2. <<Connected>> \o pending \in Seq(AllMsgs)
  BY <1>1
<1> QED
  BY <1>2, FramesOf

LEMMA AcceptIs ==
  ASSUME TypeOK, RoomInv, Accept
  PROVE  \E c \in Conns :
           /\ backlog # <<>> /\ c = Head(backlog) /\ backlog' = Tail(backlog)
           /\ connection' = c /\ pending' = <<>> /\ readBuf' = <<>>
           /\ serverClosed' = serverClosed \cup ({connection} \ {None})
           /\ FlushTo(c, Frames(<<Connected>> \o pending))
           /\ UNCHANGED <<phase, produced, handled, toServer, emacs>>
<1> DEFINE c == Head(backlog)
           first == Frames(<<Connected>> \o pending)
<1>1. /\ backlog # <<>> /\ backlog' = Tail(backlog)
      /\ connection' = c /\ pending' = <<>> /\ readBuf' = <<>>
      /\ serverClosed' = serverClosed \cup ({connection} \ {None})
      /\ UNCHANGED <<phase, produced, handled, toServer, emacs>>
      /\ IF c \in emacsClosed THEN writeBuf' = first /\ UNCHANGED toEmacs ELSE Flushed(c, first)
  BY DEF Accept
<1>2. c \in Conns
  BY <1>1 DEF TypeOK
<1>3. first \in Seq(Half) /\ toEmacs \in [Conns -> Seq(Half)]
  BY Greeted DEF TypeOK
<1> HIDE DEF c, first
<1>4. FlushTo(c, first)
  <2>1. CASE c \in emacsClosed
    <3>1. PICK a \in Seq(Half) : a = <<>>
      <4>1. <<>> \in Seq(Half)
        OBVIOUS
      <4> QED
        BY <4>1, Zenon
    <3>2. first = a \o first /\ toEmacs[c] \o a = toEmacs[c]
      BY <1>2, <1>3, <3>1
    <3>3. toEmacs' = [toEmacs EXCEPT ![c] = @ \o a] /\ writeBuf' = first
      BY <1>1, <1>2, <1>3, <2>1, <3>2
    <3> QED
      BY <1>2, <1>3, <3>1, <3>2, <3>3 DEF FlushTo, Split, RoomInv
  <2>2. CASE c \notin emacsClosed
    BY <1>1, <1>2, <1>3, <2>2, FlushedIs
  <2> QED
    BY <2>1, <2>2
<1> QED
  BY <1>1, <1>2, <1>4 DEF c, first

LEMMA SendIs ==
  ASSUME TypeOK, RoomInv, WayInv, Send
  PROVE  /\ produced < MaxMsgs /\ produced' = produced + 1 /\ produced' \in Msgs
         /\ UNCHANGED <<phase, backlog, handled, toServer, emacs>>
         /\ \/ /\ connection = None
               /\ pending' = Append(pending, produced')
               /\ UNCHANGED <<connection, writeBuf, readBuf, serverClosed, toEmacs>>
            \/ /\ connection \in Conns \ emacsClosed
               /\ FlushTo(connection, writeBuf \o Frames(<<produced'>>))
               /\ UNCHANGED <<connection, pending, readBuf, serverClosed>>
            \/ /\ connection \in Conns \cap emacsClosed
               /\ Disconnect
               /\ UNCHANGED <<pending, toEmacs>>
<1>1. /\ produced < MaxMsgs /\ produced' = produced + 1
      /\ UNCHANGED <<phase, backlog, handled, toServer, emacs>>
      /\ \/ /\ connection = None
            /\ pending' = Append(pending, produced')
            /\ UNCHANGED <<connection, writeBuf, readBuf, serverClosed, toEmacs>>
         \/ /\ connection \notin emacsClosed \cup {None}
            /\ Flushed(connection, writeBuf \o Frames(<<produced'>>))
            /\ UNCHANGED <<connection, pending, readBuf, serverClosed>>
         \/ /\ connection \in emacsClosed
            /\ Disconnect
            /\ UNCHANGED <<pending, toEmacs>>
  BY DEF Send
<1>2. produced' \in Msgs
  BY <1>1, ConstantsAssumption DEF TypeOK, Msgs
<1>3. connection \in Conns \cup {None} /\ emacsClosed \subseteq Conns
  BY DEF TypeOK
<1>4. writeBuf \in Seq(Half) /\ toEmacs \in [Conns -> Seq(Half)]
  BY DEF TypeOK
<1>5. Frames(<<produced'>>) \in Seq(Half)
  BY <1>2, FramesOfOne DEF AllMsgs
<1> DEFINE buf == writeBuf \o Frames(<<produced'>>)
<1>6. buf \in Seq(Half)
  BY <1>4, <1>5
<1> HIDE DEF buf
<1>7. connection \in Conns \ emacsClosed /\ Flushed(connection, buf) => FlushTo(connection, buf)
  BY <1>4, <1>6, FlushedIs
<1> QED
  BY <1>1, <1>2, <1>3, <1>7 DEF buf

LEMMA FlushIs ==
  ASSUME TypeOK, RoomInv, Flush
  PROVE  /\ phase' = "dispatch"
         /\ UNCHANGED <<produced, backlog, pending, handled, toServer, emacs>>
         /\ \/ UNCHANGED <<connection, writeBuf, readBuf, serverClosed, toEmacs>>
            \/ /\ connection \in Conns \ emacsClosed
               /\ FlushTo(connection, writeBuf)
               /\ UNCHANGED <<connection, readBuf, serverClosed>>
            \/ /\ connection \in Conns \cap emacsClosed
               /\ Disconnect
               /\ UNCHANGED toEmacs
<1>1. writeBuf \in Seq(Half) /\ toEmacs \in [Conns -> Seq(Half)] /\ connection \in Conns \cup {None}
  BY DEF TypeOK
<1>2. connection \in Conns \ emacsClosed /\ Flushed(connection, writeBuf) => FlushTo(connection, writeBuf)
  BY <1>1, FlushedIs
<1> QED
  BY <1>1, <1>2 DEF Flush

LEMMA RecvAllIs ==
  ASSUME TypeOK, RecvAll
  PROVE  /\ phase' = "tick"
         /\ UNCHANGED <<produced, backlog, pending, toEmacs, emacs>>
         /\ \/ /\ connection = None
               /\ UNCHANGED <<connection, writeBuf, readBuf, handled, serverClosed, toServer>>
            \/ \E read \in Seq(ReqHalf) :
                 /\ connection \in Conns /\ read = readBuf \o toServer[connection]
                 /\ toServer' = [toServer EXCEPT ![connection] = <<>>]
                 /\ \/ Disconnect /\ UNCHANGED handled
                    \/ /\ connection \notin emacsClosed
                       /\ readBuf' = Undecoded(read)
                       /\ handled' = [handled EXCEPT ![connection] = @ \o Decoded(read)]
                       /\ UNCHANGED <<connection, writeBuf, serverClosed>>
<1> DEFINE read == readBuf \o toServer[connection]
<1>1. connection \in Conns => read \in Seq(ReqHalf)
  BY DEF TypeOK
<1>2. connection \in Conns \cup {None}
  BY DEF TypeOK
<1>3. /\ phase' = "tick"
      /\ UNCHANGED <<produced, backlog, pending, toEmacs, emacs>>
      /\ \/ /\ connection = None
            /\ UNCHANGED <<connection, writeBuf, readBuf, handled, serverClosed, toServer>>
         \/ /\ connection # None
            /\ toServer' = [toServer EXCEPT ![connection] = <<>>]
            /\ IF connection \in emacsClosed \/ Oversized(read)
               THEN Disconnect /\ UNCHANGED handled
               ELSE /\ readBuf' = Undecoded(read)
                    /\ handled' = [handled EXCEPT ![connection] = @ \o Decoded(read)]
                    /\ UNCHANGED <<connection, writeBuf, serverClosed>>
  BY Zenon DEF RecvAll
<1> HIDE DEF read
<1>4. connection = None \/ (connection \in Conns /\ read \in Seq(ReqHalf))
  BY <1>1, <1>2
<1>5. CASE connection = None
  BY <1>3, <1>5
<1>6. CASE connection # None
  <2>1. connection \in Conns /\ read \in Seq(ReqHalf)
    BY <1>4, <1>6
  <2>2. \/ Disconnect /\ UNCHANGED handled
        \/ /\ connection \notin emacsClosed
           /\ readBuf' = Undecoded(read)
           /\ handled' = [handled EXCEPT ![connection] = @ \o Decoded(read)]
           /\ UNCHANGED <<connection, writeBuf, serverClosed>>
    BY <1>3, <1>6, Zenon
  <2> QED
    BY <1>3, <1>6, <2>1, <2>2, Zenon DEF read
<1> QED
  BY <1>5, <1>6

----------------------------------------------------------------------------
(* Types. What Flushed leaves and takes is made of halves only because the *)
(* kernel never holds more than it has room for.                           *)

\* TypeOK, by who changes what.
ServerTypes ==
  /\ phase \in {"dispatch", "tick"}
  /\ produced \in 0 .. MaxMsgs
  /\ backlog \in Seq(Conns)
  /\ connection \in Conns \cup {None}
  /\ pending \in Seq(Msgs)
  /\ writeBuf \in Seq(Half)
  /\ readBuf \in Seq(ReqHalf)
  /\ handled \in [Conns -> Seq(Reqs)]
  /\ serverClosed \subseteq Conns

EmacsTypes ==
  /\ opened \in 0 .. MaxConns
  /\ current \in Conns \cup {None}
  /\ emacsClosed \subseteq Conns
  /\ received \in [Conns -> Seq({Connected} \cup Msgs)]
  /\ asked \in 0 .. MaxReqs
  /\ unsent \in Seq(ReqHalf)
  /\ written \in [Conns -> Seq(Reqs)]

KernelTypes ==
  /\ toEmacs \in [Conns -> Seq(Half)]
  /\ toServer \in [Conns -> Seq(ReqHalf)]

LEMMA TypesIs == TypeOK <=> ServerTypes /\ EmacsTypes /\ KernelTypes
BY DEF TypeOK, ServerTypes, EmacsTypes, KernelTypes

\* What grows at one place keeps its type.
LEMMA GrowsBy ==
  ASSUME NEW S, NEW D, NEW f \in [D -> Seq(S)], NEW d \in D, NEW q \in Seq(S)
  PROVE  [f EXCEPT ![d] = @ \o q] \in [D -> Seq(S)]
<1>1. f[d] \in Seq(S)
  OBVIOUS
<1>2. f[d] \o q \in Seq(S)
  BY <1>1
<1> DEFINE t == f[d] \o q
<1>3. t \in Seq(S)
  BY <1>2
<1> HIDE DEF t
<1>4. [f EXCEPT ![d] = t] \in [D -> Seq(S)]
  BY <1>3
<1> QED
  BY <1>4 DEF t

LEMMA GrowsByOne ==
  ASSUME NEW S, NEW D, NEW f \in [D -> Seq(S)], NEW d \in D, NEW x \in S
  PROVE  [f EXCEPT ![d] = Append(@, x)] \in [D -> Seq(S)]
<1>1. f[d] \in Seq(S)
  OBVIOUS
<1>2. Append(f[d], x) \in Seq(S)
  BY <1>1
<1> DEFINE t == Append(f[d], x)
<1>3. t \in Seq(S)
  BY <1>2
<1> HIDE DEF t
<1>4. [f EXCEPT ![d] = t] \in [D -> Seq(S)]
  BY <1>3
<1> QED
  BY <1>4 DEF t

LEMMA UndecodedType ==
  ASSUME NEW q \in Seq(ReqHalf)
  PROVE  Undecoded(q) \in Seq(ReqHalf)
<1>1. PICK k \in Nat : k = Len(Completed(q, Kinds))
  <2>1. Selected(q, ReqBody(Kinds)) \in Seq(ReqHalf) /\ \A h \in ReqHalf : h.msg \in Reqs
    BY SelectedInSeq, ReqBodyOf
  <2>2. MsgsOf(Selected(q, ReqBody(Kinds))) \in Seq(Reqs)
    BY <2>1, MsgsOfType
  <2>3. Completed(q, Kinds) \in Seq(Reqs)
    BY <2>2, CompletedIs
  <2>4. Len(Completed(q, Kinds)) \in Nat
    BY <2>3
  <2> QED
    BY <2>4
<1>2. \A i \in (2 * k + 1) .. Len(q) : q[i] \in ReqHalf
  OBVIOUS
<1>3. 2 * k + 1 \in Int /\ Len(q) \in Int
  OBVIOUS
<1>4. SubSeq(q, 2 * k + 1, Len(q)) \in Seq(ReqHalf)
  BY <1>2, <1>3, SubSeqProperties
<1> QED
  BY <1>1, <1>4 DEF Undecoded

LEMMA FlushToTypes ==
  ASSUME NEW c \in Conns, NEW buf \in Seq(Half), KernelTypes, RoomInv, FlushTo(c, buf),
         UNCHANGED toServer
  PROVE  KernelTypes' /\ RoomInv' /\ writeBuf' \in Seq(Half)
<1>1. PICK a \in Seq(Half), b \in Seq(Half) :
        /\ toEmacs' = [toEmacs EXCEPT ![c] = @ \o a] /\ writeBuf' = b
        /\ Len(toEmacs[c] \o a) <= SocketRoom
  BY DEF FlushTo
<1>2. PICK t \in Seq(Half) : t = toEmacs[c] \o a
  <2>1. toEmacs[c] \o a \in Seq(Half)
    BY DEF KernelTypes
  <2> QED
    BY <2>1
<1>3. toEmacs' = [toEmacs EXCEPT ![c] = t]
  BY <1>1, <1>2
<1>4. KernelTypes'
  BY <1>3 DEF KernelTypes
<1>5. \A d \in Conns : toEmacs'[d] = IF d = c THEN t ELSE toEmacs[d]
  BY <1>3 DEF KernelTypes
<1>6. RoomInv'
  BY <1>1, <1>2, <1>5 DEF RoomInv
<1> QED
  BY <1>1, <1>4, <1>6

LEMMA SomeNone == <<>> \in Seq(Half) /\ <<>> \in Seq(ReqHalf) /\ <<>> \in Seq(Msgs)
OBVIOUS

LEMMA DisconnectTypes ==
  ASSUME TypeOK, connection \in Conns, Disconnect
  PROVE  /\ connection' \in Conns \cup {None} /\ serverClosed' \subseteq Conns
         /\ writeBuf' \in Seq(Half) /\ readBuf' \in Seq(ReqHalf)
BY SomeNone DEF Disconnect, TypeOK, None

Types == TypeOK /\ RoomInv

LEMMA InitTypes == Init => Types
BY ConstantsAssumption, SomeNone DEF Init, Types, TypeOK, RoomInv, None, Conns, Connected

LEMMA AcceptTypes ==
  ASSUME Types, Accept
  PROVE  Types'
<1>1. PICK c \in Conns :
           /\ backlog # <<>> /\ c = Head(backlog) /\ backlog' = Tail(backlog)
           /\ connection' = c /\ pending' = <<>> /\ readBuf' = <<>>
           /\ serverClosed' = serverClosed \cup ({connection} \ {None})
           /\ FlushTo(c, Frames(<<Connected>> \o pending))
           /\ UNCHANGED <<phase, produced, handled, toServer, emacs>>
  BY AcceptIs DEF Types
<1>2. Frames(<<Connected>> \o pending) \in Seq(Half)
  BY Greeted DEF Types, TypeOK
<1>3. KernelTypes' /\ RoomInv' /\ writeBuf' \in Seq(Half)
  BY <1>1, <1>2, FlushToTypes, TypesIs DEF Types
<1>4. backlog' \in Seq(Conns) /\ serverClosed' \subseteq Conns
  BY <1>1 DEF Types, TypeOK
<1>5. ServerTypes'
  BY <1>1, <1>3, <1>4, SomeNone DEF Types, TypeOK, ServerTypes
<1>6. EmacsTypes'
  BY <1>1, TypesIs DEF Types, EmacsTypes, emacs
<1> QED
  BY <1>3, <1>5, <1>6, TypesIs DEF Types, TypeOK, ServerTypes, EmacsTypes, KernelTypes

LEMMA SendTypes ==
  ASSUME Types, WayInv, Send
  PROVE  Types'
<1>1. /\ produced < MaxMsgs /\ produced' = produced + 1 /\ produced' \in Msgs
      /\ UNCHANGED <<phase, backlog, handled, toServer, emacs>>
      /\ \/ /\ connection = None
            /\ pending' = Append(pending, produced')
            /\ UNCHANGED <<connection, writeBuf, readBuf, serverClosed, toEmacs>>
         \/ /\ connection \in Conns \ emacsClosed
            /\ FlushTo(connection, writeBuf \o Frames(<<produced'>>))
            /\ UNCHANGED <<connection, pending, readBuf, serverClosed>>
         \/ /\ connection \in Conns \cap emacsClosed
            /\ Disconnect
            /\ UNCHANGED <<pending, toEmacs>>
  BY SendIs DEF Types
<1>2. writeBuf \o Frames(<<produced'>>) \in Seq(Half)
  <2>1. Frames(<<produced'>>) \in Seq(Half)
    BY <1>1, FramesOfOne DEF AllMsgs
  <2> QED
    BY <2>1 DEF Types, TypeOK
<1>3. produced' \in 0 .. MaxMsgs
  BY <1>1, ConstantsAssumption DEF Types, TypeOK
<1>4. pending' \in Seq(Msgs)
  <2>1. Append(pending, produced') \in Seq(Msgs)
    BY <1>1 DEF Types, TypeOK
  <2> QED
    BY <1>1, <2>1 DEF Types, TypeOK
<1>5. KernelTypes' /\ RoomInv' /\ writeBuf' \in Seq(Half)
  <2>1. CASE connection \in Conns /\ FlushTo(connection, writeBuf \o Frames(<<produced'>>))
    BY <1>1, <1>2, <2>1, FlushToTypes, TypesIs DEF Types
  <2>2. CASE UNCHANGED <<writeBuf, toEmacs>>
    BY <1>1, <2>2 DEF Types, TypeOK, KernelTypes, RoomInv
  <2>3. CASE connection \in Conns /\ Disconnect /\ UNCHANGED toEmacs
    BY <1>1, <2>3, DisconnectTypes DEF Types, TypeOK, KernelTypes, RoomInv
  <2> QED
    BY <1>1, <2>1, <2>2, <2>3
<1>6. connection' \in Conns \cup {None} /\ serverClosed' \subseteq Conns /\ readBuf' \in Seq(ReqHalf)
  <2>1. CASE connection \in Conns /\ Disconnect
    BY <2>1, DisconnectTypes DEF Types
  <2>2. CASE UNCHANGED <<connection, serverClosed, readBuf>>
    BY <2>2 DEF Types, TypeOK
  <2> QED
    BY <1>1, <2>1, <2>2
<1>7. ServerTypes'
  BY <1>1, <1>3, <1>4, <1>5, <1>6 DEF Types, TypeOK, ServerTypes
<1>8. EmacsTypes'
  BY <1>1, TypesIs DEF Types, EmacsTypes, emacs
<1> QED
  BY <1>5, <1>7, <1>8 DEF Types, TypeOK, ServerTypes, EmacsTypes, KernelTypes

LEMMA FlushTypes ==
  ASSUME Types, Flush
  PROVE  Types'
<1>1. /\ phase' = "dispatch"
      /\ UNCHANGED <<produced, backlog, pending, handled, toServer, emacs>>
      /\ \/ UNCHANGED <<connection, writeBuf, readBuf, serverClosed, toEmacs>>
         \/ /\ connection \in Conns \ emacsClosed
            /\ FlushTo(connection, writeBuf)
            /\ UNCHANGED <<connection, readBuf, serverClosed>>
         \/ /\ connection \in Conns \cap emacsClosed
            /\ Disconnect
            /\ UNCHANGED toEmacs
  BY FlushIs DEF Types
<1>2. writeBuf \in Seq(Half)
  BY DEF Types, TypeOK
<1>5. KernelTypes' /\ RoomInv' /\ writeBuf' \in Seq(Half)
  <2>1. CASE connection \in Conns /\ FlushTo(connection, writeBuf)
    BY <1>1, <1>2, <2>1, FlushToTypes, TypesIs DEF Types
  <2>2. CASE UNCHANGED <<writeBuf, toEmacs>>
    BY <1>1, <2>2 DEF Types, TypeOK, KernelTypes, RoomInv
  <2>3. CASE connection \in Conns /\ Disconnect /\ UNCHANGED toEmacs
    BY <1>1, <2>3, DisconnectTypes DEF Types, TypeOK, KernelTypes, RoomInv
  <2> QED
    BY <1>1, <2>1, <2>2, <2>3
<1>6. connection' \in Conns \cup {None} /\ serverClosed' \subseteq Conns /\ readBuf' \in Seq(ReqHalf)
  <2>1. CASE connection \in Conns /\ Disconnect
    BY <2>1, DisconnectTypes DEF Types
  <2>2. CASE UNCHANGED <<connection, serverClosed, readBuf>>
    BY <2>2 DEF Types, TypeOK
  <2> QED
    BY <1>1, <2>1, <2>2
<1>7. ServerTypes'
  BY <1>1, <1>5, <1>6 DEF Types, TypeOK, ServerTypes
<1>8. EmacsTypes'
  BY <1>1, TypesIs DEF Types, EmacsTypes, emacs
<1> QED
  BY <1>5, <1>7, <1>8 DEF Types, TypeOK, ServerTypes, EmacsTypes, KernelTypes

LEMMA RecvAllTypes ==
  ASSUME Types, RecvAll
  PROVE  Types'
<1>1. /\ phase' = "tick"
      /\ UNCHANGED <<produced, backlog, pending, toEmacs, emacs>>
      /\ \/ /\ connection = None
            /\ UNCHANGED <<connection, writeBuf, readBuf, handled, serverClosed, toServer>>
         \/ \E read \in Seq(ReqHalf) :
              /\ connection \in Conns /\ read = readBuf \o toServer[connection]
              /\ toServer' = [toServer EXCEPT ![connection] = <<>>]
              /\ \/ Disconnect /\ UNCHANGED handled
                 \/ /\ connection \notin emacsClosed
                    /\ readBuf' = Undecoded(read)
                    /\ handled' = [handled EXCEPT ![connection] = @ \o Decoded(read)]
                    /\ UNCHANGED <<connection, writeBuf, serverClosed>>
  BY RecvAllIs DEF Types
<1>2. EmacsTypes'
  BY <1>1, TypesIs DEF Types, EmacsTypes, emacs
<1>3. CASE UNCHANGED <<connection, writeBuf, readBuf, handled, serverClosed, toServer>>
  <2>1. ServerTypes'
    BY <1>1, <1>3 DEF Types, TypeOK, ServerTypes
  <2>2. KernelTypes' /\ RoomInv'
    BY <1>1, <1>3 DEF Types, TypeOK, KernelTypes, RoomInv
  <2> QED
    BY <1>2, <2>1, <2>2 DEF Types, TypeOK, ServerTypes, EmacsTypes, KernelTypes
<1>4. ASSUME NEW read \in Seq(ReqHalf),
             connection \in Conns,
             toServer' = [toServer EXCEPT ![connection] = <<>>],
             \/ Disconnect /\ UNCHANGED handled
             \/ /\ readBuf' = Undecoded(read)
                /\ handled' = [handled EXCEPT ![connection] = @ \o Decoded(read)]
                /\ UNCHANGED <<connection, writeBuf, serverClosed>>
      PROVE  Types'
  <2>1. KernelTypes' /\ RoomInv'
    BY <1>1, <1>4, SomeNone DEF Types, TypeOK, KernelTypes, RoomInv
  <2>2. CASE Disconnect /\ UNCHANGED handled
    <3>1. ServerTypes'
      BY <1>1, <1>4, <2>2, DisconnectTypes DEF Types, TypeOK, ServerTypes
    <3> QED
      BY <1>2, <2>1, <3>1 DEF Types, TypeOK, ServerTypes, EmacsTypes, KernelTypes
  <2>3. CASE /\ readBuf' = Undecoded(read)
             /\ handled' = [handled EXCEPT ![connection] = @ \o Decoded(read)]
             /\ UNCHANGED <<connection, writeBuf, serverClosed>>
    <3>1. Undecoded(read) \in Seq(ReqHalf) /\ Decoded(read) \in Seq(Reqs)
      BY UndecodedType, DecodedType
    <3>2. handled' \in [Conns -> Seq(Reqs)]
      <4>1. handled \in [Conns -> Seq(Reqs)]
        BY DEF Types, TypeOK
      <4> QED
        BY <1>4, <2>3, <3>1, <4>1, GrowsBy
    <3>3. ServerTypes'
      BY <1>1, <2>3, <3>1, <3>2 DEF Types, TypeOK, ServerTypes
    <3> QED
      BY <1>2, <2>1, <3>3 DEF Types, TypeOK, ServerTypes, EmacsTypes, KernelTypes
  <2> QED
    BY <1>4, <2>2, <2>3
<1> QED
  BY <1>1, <1>3, <1>4

LEMMA AcceptFailsTypes ==
  ASSUME Types, AcceptFails
  PROVE  Types'
<1>1. /\ backlog' \in Seq(Conns) /\ serverClosed' \subseteq Conns
  <2>1. /\ backlog # <<>> /\ backlog' = Tail(backlog)
        /\ serverClosed' = serverClosed \cup {Head(backlog)}
        /\ backlog \in Seq(Conns) /\ serverClosed \subseteq Conns
    BY DEF AcceptFails, Types, TypeOK
  <2> QED
    BY <2>1
<1>2. UNCHANGED <<phase, produced, connection, pending, writeBuf, readBuf, handled, kernel, emacs>>
  BY DEF AcceptFails
<1> QED
  BY <1>1, <1>2 DEF Types, TypeOK, RoomInv, kernel, emacs

\* Emacs's steps leave the compositor's own state alone, but for the backlog.
LEMMA HangupTypes ==
  ASSUME Types, NEW c \in Conns, Hangup(c)
  PROVE  /\ emacsClosed' \subseteq Conns
         /\ toEmacs' \in [Conns -> Seq(Half)] /\ RoomInv'
<1>1. emacsClosed' = emacsClosed \cup {c} /\ toEmacs' = [toEmacs EXCEPT ![c] = <<>>]
  BY DEF Hangup
<1>2. emacsClosed' \subseteq Conns /\ toEmacs' \in [Conns -> Seq(Half)]
  BY <1>1, SomeNone DEF Types, TypeOK
<1>3. \A d \in Conns : toEmacs'[d] = IF d = c THEN <<>> ELSE toEmacs[d]
  BY <1>1 DEF Types, TypeOK
<1>4. Len(<<>>) = 0 /\ 0 <= SocketRoom
  BY ConstantsAssumption
<1>5. RoomInv'
  BY <1>3, <1>4 DEF Types, RoomInv
<1> QED
  BY <1>2, <1>5

LEMMA ConnectTypes ==
  ASSUME Types, Connect
  PROVE  Types'
<1>1. /\ opened < MaxConns /\ opened' = opened + 1 /\ current' = opened + 1
      /\ backlog' = Append(backlog, opened + 1) /\ unsent' = <<>>
      /\ IF current = None THEN UNCHANGED <<emacsClosed, toEmacs>> ELSE Hangup(current)
      /\ UNCHANGED <<phase, produced, connection, pending, writeBuf, readBuf, handled,
                     serverClosed, toServer, received, asked, written>>
  BY DEF Connect
<1>2. opened + 1 \in Conns /\ opened + 1 \in 0 .. MaxConns
  BY <1>1, ConstantsAssumption DEF Types, TypeOK, Conns
<1>3. Append(backlog, opened + 1) \in Seq(Conns)
  BY <1>2 DEF Types, TypeOK
<1>4. emacsClosed' \subseteq Conns /\ toEmacs' \in [Conns -> Seq(Half)] /\ RoomInv'
  <2>1. CASE current = None
    BY <1>1, <2>1 DEF Types, TypeOK, RoomInv
  <2>2. CASE current # None
    BY <1>1, <2>2, HangupTypes DEF Types, TypeOK
  <2> QED
    BY <2>1, <2>2
<1>5. ServerTypes'
  BY <1>1, <1>3 DEF Types, TypeOK, ServerTypes
<1>6. EmacsTypes'
  BY <1>1, <1>2, <1>4, SomeNone DEF Types, TypeOK, EmacsTypes
<1>7. KernelTypes'
  BY <1>1, <1>4 DEF Types, TypeOK, KernelTypes
<1> QED
  BY <1>4, <1>5, <1>6, <1>7 DEF Types, TypeOK, ServerTypes, EmacsTypes, KernelTypes

LEMMA LeaveTypes ==
  ASSUME Types, Leave
  PROVE  Types'
<1>1. /\ current # None /\ Hangup(current) /\ current' = None /\ unsent' = <<>>
      /\ UNCHANGED <<server, toServer, opened, received, asked, written>>
  BY DEF Leave
<1>2. emacsClosed' \subseteq Conns /\ toEmacs' \in [Conns -> Seq(Half)] /\ RoomInv'
  BY <1>1, HangupTypes DEF Types, TypeOK
<1>3. ServerTypes'
  BY <1>1 DEF Types, TypeOK, ServerTypes, server
<1>4. EmacsTypes' /\ KernelTypes'
  BY <1>1, <1>2, SomeNone DEF Types, TypeOK, EmacsTypes, KernelTypes, None
<1> QED
  BY <1>2, <1>3, <1>4 DEF Types, TypeOK, ServerTypes, EmacsTypes, KernelTypes

LEMMA NoticeCloseTypes ==
  ASSUME Types, NoticeClose
  PROVE  Types'
<1>1. /\ current \in serverClosed /\ emacsClosed' = emacsClosed \cup {current}
      /\ current' = None /\ unsent' = <<>>
      /\ UNCHANGED <<server, kernel, opened, received, asked, written>>
  BY DEF NoticeClose
<1>2. EmacsTypes'
  BY <1>1, SomeNone DEF Types, TypeOK, EmacsTypes, None
<1>3. ServerTypes' /\ KernelTypes' /\ RoomInv'
  BY <1>1 DEF Types, TypeOK, ServerTypes, KernelTypes, RoomInv, server, kernel
<1> QED
  BY <1>2, <1>3 DEF Types, TypeOK, ServerTypes, EmacsTypes, KernelTypes

\* What one read does, with the half it takes.
LEMMA ReadIs ==
  ASSUME TypeOK, Read
  PROVE  \E half \in Half, rest \in Seq(Half) :
           /\ current \in Conns /\ toEmacs[current] # <<>>
           /\ half = Head(toEmacs[current]) /\ rest = Tail(toEmacs[current])
           /\ Len(rest) = Len(toEmacs[current]) - 1
           /\ toEmacs' = [toEmacs EXCEPT ![current] = rest]
           /\ received' = IF half.part = "header" THEN received
                          ELSE [received EXCEPT ![current] = Append(@, half.msg)]
           /\ UNCHANGED <<server, toServer, opened, current, emacsClosed, asked, unsent, written>>
<1>1. /\ current # None /\ toEmacs[current] # <<>>
      /\ toEmacs' = [toEmacs EXCEPT ![current] = Tail(@)]
      /\ received' = IF Head(toEmacs[current]).part = "header" THEN received
                     ELSE [received EXCEPT ![current] = Append(@, Head(toEmacs[current]).msg)]
      /\ UNCHANGED <<server, toServer, opened, current, emacsClosed, asked, unsent, written>>
  BY DEF Read
<1>2. current \in Conns /\ toEmacs[current] \in Seq(Half)
  BY <1>1 DEF TypeOK
<1> DEFINE q == toEmacs[current]
<1>3. Head(q) \in Half /\ Tail(q) \in Seq(Half) /\ Len(Tail(q)) = Len(q) - 1
  <2> HIDE DEF q
  <2> QED
    BY <1>1, <1>2 DEF q
<1>4. toEmacs' = [toEmacs EXCEPT ![current] = Tail(q)]
  BY <1>1
<1> QED
  BY <1>1, <1>2, <1>3, <1>4

LEMMA ReadTypes ==
  ASSUME Types, Read
  PROVE  Types'
<1>1. PICK half \in Half, rest \in Seq(Half) :
           /\ current \in Conns /\ toEmacs[current] # <<>>
           /\ half = Head(toEmacs[current]) /\ rest = Tail(toEmacs[current])
           /\ Len(rest) = Len(toEmacs[current]) - 1
           /\ toEmacs' = [toEmacs EXCEPT ![current] = rest]
           /\ received' = IF half.part = "header" THEN received
                          ELSE [received EXCEPT ![current] = Append(@, half.msg)]
           /\ UNCHANGED <<server, toServer, opened, current, emacsClosed, asked, unsent, written>>
  BY ReadIs DEF Types
<1>2. half.msg \in {Connected} \cup Msgs
  BY DEF Half
<1>3. received' \in [Conns -> Seq({Connected} \cup Msgs)]
  <2>1. received \in [Conns -> Seq({Connected} \cup Msgs)]
    BY DEF Types, TypeOK
  <2> QED
    BY <1>1, <1>2, <2>1, GrowsByOne
<1>4. RoomInv'
  <2>1. Len(rest) <= SocketRoom
    BY <1>1, ConstantsAssumption DEF Types, TypeOK, RoomInv
  <2>2. \A d \in Conns : toEmacs'[d] = IF d = current THEN rest ELSE toEmacs[d]
    BY <1>1 DEF Types, TypeOK
  <2> QED
    BY <2>1, <2>2 DEF Types, RoomInv
<1>5. KernelTypes'
  BY <1>1 DEF Types, TypeOK, KernelTypes
<1>6. ServerTypes' /\ EmacsTypes'
  BY <1>1, <1>3 DEF Types, TypeOK, ServerTypes, EmacsTypes, server
<1> QED
  BY <1>4, <1>5, <1>6 DEF Types, TypeOK, ServerTypes, EmacsTypes, KernelTypes

LEMMA WriteHeaderIs ==
  ASSUME TypeOK, NEW kind \in Kinds, WriteHeader(kind)
  PROVE  \E h \in ReqHalf, b \in ReqHalf :
           /\ current \in Conns \ serverClosed /\ unsent = <<>>
           /\ asked' = asked + 1 /\ asked' \in Reqs
           /\ h.part = "header" /\ b.part = "body"
           /\ toServer' = [toServer EXCEPT ![current] = Append(@, h)]
           /\ unsent' = <<b>>
           /\ UNCHANGED <<server, toEmacs, opened, current, emacsClosed, received, written>>
<1> DEFINE half(part) == [msg |-> asked', kind |-> kind, part |-> part]
<1>1. /\ current \notin serverClosed \cup {None} /\ unsent = <<>> /\ asked < MaxReqs
      /\ asked' = asked + 1
      /\ toServer' = [toServer EXCEPT ![current] = Append(@, half("header"))]
      /\ unsent' = <<half("body")>>
      /\ UNCHANGED <<server, toEmacs, opened, current, emacsClosed, received, written>>
  BY DEF WriteHeader
<1>2. asked' \in Reqs
  BY <1>1, ConstantsAssumption DEF TypeOK, Reqs
<1>3. /\ half("header") \in ReqHalf /\ half("body") \in ReqHalf
      /\ half("header").part = "header" /\ half("body").part = "body"
  BY <1>2 DEF ReqHalf, Parts
<1>4. current \in Conns \ serverClosed
  BY <1>1 DEF TypeOK
<1> DEFINE h == half("header")
           b == half("body")
<1>5. /\ h \in ReqHalf /\ b \in ReqHalf /\ h.part = "header" /\ b.part = "body"
      /\ toServer' = [toServer EXCEPT ![current] = Append(@, h)] /\ unsent' = <<b>>
  BY <1>1, <1>3
<1> HIDE DEF h, b, half
<1> QED
  BY <1>1, <1>2, <1>4, <1>5

LEMMA WriteHeaderTypes ==
  ASSUME Types, NEW kind \in Kinds, WriteHeader(kind)
  PROVE  Types'
<1>1. PICK h \in ReqHalf, b \in ReqHalf :
           /\ current \in Conns \ serverClosed /\ unsent = <<>>
           /\ asked' = asked + 1 /\ asked' \in Reqs
           /\ h.part = "header" /\ b.part = "body"
           /\ toServer' = [toServer EXCEPT ![current] = Append(@, h)]
           /\ unsent' = <<b>>
           /\ UNCHANGED <<server, toEmacs, opened, current, emacsClosed, received, written>>
  BY WriteHeaderIs DEF Types
<1>2. KernelTypes'
  <2>1. toServer \in [Conns -> Seq(ReqHalf)]
    BY DEF Types, TypeOK
  <2>2. toServer' \in [Conns -> Seq(ReqHalf)]
    BY <1>1, <2>1, GrowsByOne
  <2> QED
    BY <1>1, <2>2 DEF Types, TypeOK, KernelTypes
<1>3. unsent' \in Seq(ReqHalf) /\ asked' \in 0 .. MaxReqs
  BY <1>1, ConstantsAssumption DEF Reqs
<1>4. ServerTypes' /\ EmacsTypes' /\ RoomInv'
  BY <1>1, <1>3 DEF Types, TypeOK, ServerTypes, EmacsTypes, RoomInv, server
<1> QED
  BY <1>2, <1>4 DEF Types, TypeOK, ServerTypes, EmacsTypes, KernelTypes

LEMMA WriteBodyTypes ==
  ASSUME Types, WriteBody
  PROVE  Types'
<1>1. /\ current \notin serverClosed \cup {None} /\ unsent # <<>>
      /\ toServer' = [toServer EXCEPT ![current] = @ \o unsent]
      /\ written' = [written EXCEPT ![current] =
           IF unsent[1].kind = "ok" THEN Append(@, unsent[1].msg) ELSE @]
      /\ unsent' = <<>>
      /\ UNCHANGED <<server, toEmacs, opened, current, emacsClosed, asked, received>>
  BY DEF WriteBody
<1>2. current \in Conns /\ unsent \in Seq(ReqHalf)
  BY <1>1 DEF Types, TypeOK
<1>3. unsent[1] \in ReqHalf
  BY <1>1, <1>2
<1>4. unsent[1].msg \in Reqs
  BY <1>3, ReqBodyOf
<1>5. KernelTypes'
  <2>1. toServer \in [Conns -> Seq(ReqHalf)]
    BY DEF Types, TypeOK
  <2>2. toServer' \in [Conns -> Seq(ReqHalf)]
    BY <1>1, <1>2, <2>1, GrowsBy
  <2> QED
    BY <1>1, <2>2 DEF Types, TypeOK, KernelTypes
<1>6. written' \in [Conns -> Seq(Reqs)]
  <2>1. written \in [Conns -> Seq(Reqs)]
    BY DEF Types, TypeOK
  <2>2. \/ written' = [written EXCEPT ![current] = Append(@, unsent[1].msg)]
        \/ written' = [written EXCEPT ![current] = @]
    BY <1>1
  <2>3. [written EXCEPT ![current] = Append(@, unsent[1].msg)] \in [Conns -> Seq(Reqs)]
    BY <1>2, <1>4, <2>1, GrowsByOne
  <2>4. [written EXCEPT ![current] = @] = written
    BY <2>1
  <2> QED
    BY <2>1, <2>2, <2>3, <2>4
<1>7. ServerTypes' /\ EmacsTypes' /\ RoomInv'
  BY <1>1, <1>6, SomeNone DEF Types, TypeOK, ServerTypes, EmacsTypes, RoomInv, server
<1> QED
  BY <1>5, <1>7 DEF Types, TypeOK, ServerTypes, EmacsTypes, KernelTypes

LEMMA TypesStep ==
  ASSUME Types, WayInv, [Next]_vars
  PROVE  Types'
<1>1. CASE UNCHANGED vars
  BY <1>1 DEF Types, TypeOK, RoomInv, vars, server, kernel, emacs
<1>2. CASE Next
  BY <1>2, AcceptTypes, AcceptFailsTypes, SendTypes, RecvAllTypes, FlushTypes, ConnectTypes,
     LeaveTypes, NoticeCloseTypes, ReadTypes, WriteHeaderTypes, WriteBodyTypes
  DEF Next, Compositor, Emacs
<1> QED
  BY <1>1, <1>2

----------------------------------------------------------------------------
(* A connection that waits to be accepted has carried nothing, and Emacs   *)
(* reads from none that it has closed.                                     *)

\* A connection that is yet to be made, or to be accepted.
Waiting(c) == c > opened \/ \E i \in 1 .. Len(backlog) : backlog[i] = c

\* Nothing has passed on it yet, and Emacs has not closed the one it uses.
FreshInv ==
  /\ current \in 0 .. opened
  /\ emacsClosed \subseteq 1 .. opened
  /\ current \notin emacsClosed
  /\ \A c \in Conns : Waiting(c) => received[c] = <<>> /\ toEmacs[c] = <<>>

LEMMA InUseNotWaiting ==
  ASSUME WayInv, connection # None
  PROVE  ~Waiting(connection)
BY DEF Waiting, WayInv, BacklogInv, None

\* A step that makes no connection wait, and disturbs none that waits.
LEMMA FreshKept ==
  ASSUME FreshInv,
         current' \in 0 .. opened', emacsClosed' \subseteq 1 .. opened', current' \notin emacsClosed',
         \A c \in Conns : Waiting(c)' =>
           /\ Waiting(c)
           /\ received'[c] = received[c]
           /\ toEmacs'[c] = toEmacs[c] \/ toEmacs'[c] = <<>>
  PROVE  FreshInv'
BY DEF FreshInv

LEMMA FlushToOthers ==
  ASSUME NEW c \in Conns, NEW buf, toEmacs \in [Conns -> Seq(Half)], FlushTo(c, buf)
  PROVE  \A d \in Conns : d # c => toEmacs'[d] = toEmacs[d]
BY DEF FlushTo

LEMMA AcceptFresh ==
  ASSUME Types, WayInv, FreshInv, Accept
  PROVE  FreshInv'
<1>1. PICK c \in Conns :
        /\ backlog # <<>> /\ c = Head(backlog) /\ backlog' = Tail(backlog)
        /\ FlushTo(c, Frames(<<Connected>> \o pending))
        /\ UNCHANGED emacs
  BY AcceptIs DEF Types
<1>2. backlog \in Seq(Conns) /\ Len(backlog) \in Nat \ {0} /\ c = backlog[1]
  BY <1>1 DEF Types, TypeOK
<1>3. /\ Len(Tail(backlog)) = Len(backlog) - 1
      /\ \A i \in 1 .. Len(Tail(backlog)) : Tail(backlog)[i] = backlog[i + 1]
  BY <1>1, <1>2
<1>4. UNCHANGED <<opened, current, emacsClosed, received>>
  BY <1>1 DEF emacs
<1>5. c <= opened
  BY <1>2 DEF WayInv, BacklogInv
<1>6. ASSUME NEW d \in Conns, Waiting(d)'
      PROVE  Waiting(d) /\ d # c
  <2>1. CASE d > opened
    BY <1>5, <2>1 DEF Waiting, Conns, WayInv, BacklogInv
  <2>2. CASE \E i \in 1 .. Len(backlog') : backlog'[i] = d
    <3>1. PICK i \in 1 .. (Len(backlog) - 1) : backlog[i + 1] = d
      BY <1>1, <1>3, <2>2
    <3>2. i + 1 \in 1 .. Len(backlog) /\ 1 \in 1 .. Len(backlog) /\ i + 1 # 1
      BY <1>2
    <3>3. d # c
      BY <1>2, <3>1, <3>2 DEF WayInv, BacklogInv
    <3> QED
      BY <3>1, <3>2, <3>3 DEF Waiting
  <2> QED
    BY <1>4, <1>6, <2>1, <2>2 DEF Waiting
<1>7. \A d \in Conns : d # c => toEmacs'[d] = toEmacs[d]
  BY <1>1, FlushToOthers DEF Types, TypeOK
<1> QED
  BY <1>4, <1>6, <1>7, FreshKept DEF FreshInv

LEMMA AcceptFailsFresh ==
  ASSUME Types, WayInv, FreshInv, AcceptFails
  PROVE  FreshInv'
<1>1. /\ backlog # <<>> /\ backlog' = Tail(backlog)
      /\ UNCHANGED <<opened, current, emacsClosed, received, toEmacs>>
  BY DEF AcceptFails, kernel, emacs
<1>2. backlog \in Seq(Conns) /\ Len(backlog) \in Nat \ {0}
  BY <1>1 DEF Types, TypeOK
<1>3. /\ Len(Tail(backlog)) = Len(backlog) - 1
      /\ \A i \in 1 .. Len(Tail(backlog)) : Tail(backlog)[i] = backlog[i + 1]
  BY <1>1, <1>2
<1>4. ASSUME NEW d \in Conns, Waiting(d)'
      PROVE  Waiting(d)
  <2>1. CASE \E i \in 1 .. Len(backlog') : backlog'[i] = d
    <3>1. PICK i \in 1 .. (Len(backlog) - 1) : backlog[i + 1] = d
      BY <1>1, <1>3, <2>1
    <3>2. i + 1 \in 1 .. Len(backlog)
      BY <1>2
    <3> QED
      BY <3>1, <3>2 DEF Waiting
  <2> QED
    BY <1>1, <1>4, <2>1 DEF Waiting
<1> QED
  BY <1>1, <1>4, FreshKept DEF FreshInv

\* Emacs and the backlog as they are, and at most the connection in use gets something.
LEMMA ServerFresh ==
  ASSUME Types, WayInv, FreshInv, UNCHANGED <<backlog, emacs>>,
         UNCHANGED toEmacs \/ (connection \in Conns /\ \E buf : FlushTo(connection, buf))
  PROVE  FreshInv'
<1>1. UNCHANGED <<opened, backlog, current, emacsClosed, received>>
  BY DEF emacs
<1>2. \A c \in Conns : Waiting(c)' <=> Waiting(c)
  BY <1>1 DEF Waiting
<1>3. CASE UNCHANGED toEmacs
  BY <1>1, <1>2, <1>3, FreshKept DEF FreshInv
<1>4. CASE connection \in Conns /\ \E buf : FlushTo(connection, buf)
  <2>1. \A c \in Conns : c # connection => toEmacs'[c] = toEmacs[c]
    BY <1>4, FlushToOthers DEF Types, TypeOK
  <2>2. ~Waiting(connection)
    BY <1>4, InUseNotWaiting DEF Conns, None
  <2> QED
    BY <1>1, <1>2, <2>1, <2>2, FreshKept DEF FreshInv
<1> QED
  BY <1>3, <1>4

LEMMA ConnectFresh ==
  ASSUME Types, WayInv, FreshInv, Connect
  PROVE  FreshInv'
<1>1. /\ opened' = opened + 1 /\ current' = opened + 1
      /\ backlog' = Append(backlog, opened + 1)
      /\ IF current = None THEN UNCHANGED <<emacsClosed, toEmacs>> ELSE Hangup(current)
      /\ UNCHANGED received
  BY DEF Connect
<1>2. opened \in Nat /\ current \in 0 .. opened /\ emacsClosed \subseteq 1 .. opened
  BY DEF FreshInv, WayInv, BacklogInv
<1>3. emacsClosed' \subseteq 1 .. opened
  <2>1. emacsClosed' = emacsClosed \/ (current \in 1 .. opened /\ emacsClosed' = emacsClosed \cup {current})
    BY <1>1, <1>2 DEF Hangup, None
  <2> QED
    BY <1>2, <2>1
<1>4. \A c \in Conns : toEmacs'[c] = toEmacs[c] \/ toEmacs'[c] = <<>>
  BY <1>1 DEF Hangup, Types, TypeOK
<1>5. ASSUME NEW d \in Conns, Waiting(d)'
      PROVE  Waiting(d)
  <2>1. d \in Nat
    BY DEF Conns
  <2>2. CASE d > opened + 1
    BY <1>2, <2>1, <2>2 DEF Waiting
  <2>3. CASE \E i \in 1 .. Len(backlog') : backlog'[i] = d
    <3>1. /\ Len(backlog') = Len(backlog) + 1 /\ Len(backlog) \in Nat
          /\ \A i \in 1 .. Len(backlog) : backlog'[i] = backlog[i]
          /\ backlog'[Len(backlog) + 1] = opened + 1
      <4>1. backlog \in Seq(Conns) /\ backlog' = Append(backlog, opened + 1)
        BY <1>1 DEF Types, TypeOK
      <4> QED
        BY <4>1, AppendsOne
    <3>2. d = opened + 1 \/ \E i \in 1 .. Len(backlog) : backlog[i] = d
      BY <2>3, <3>1
    <3> QED
      BY <1>2, <2>1, <3>2 DEF Waiting
  <2> QED
    BY <1>1, <1>5, <2>2, <2>3 DEF Waiting
<1> QED
  BY <1>1, <1>2, <1>3, <1>4, <1>5, FreshKept

LEMMA LeaveFresh ==
  ASSUME Types, WayInv, FreshInv, Leave \/ NoticeClose
  PROVE  FreshInv'
<1>1. /\ current # None /\ current' = None /\ emacsClosed' = emacsClosed \cup {current}
      /\ UNCHANGED <<backlog, opened, received>>
      /\ toEmacs' = [toEmacs EXCEPT ![current] = <<>>] \/ UNCHANGED toEmacs
  BY DEF Leave, NoticeClose, Hangup, server, kernel, WayInv, BacklogInv, None
<1>2. \A c \in Conns : toEmacs'[c] = toEmacs[c] \/ toEmacs'[c] = <<>>
  BY <1>1 DEF Types, TypeOK
<1>3. \A c \in Conns : Waiting(c)' <=> Waiting(c)
  BY <1>1 DEF Waiting
<1>4. current' \in 0 .. opened' /\ emacsClosed' \subseteq 1 .. opened' /\ current' \notin emacsClosed'
  BY <1>1 DEF FreshInv, WayInv, BacklogInv, None
<1> QED
  BY <1>1, <1>2, <1>3, <1>4, FreshKept

LEMMA ReadFresh ==
  ASSUME Types, WayInv, FreshInv, Read
  PROVE  FreshInv'
<1>1. PICK half \in Half, rest \in Seq(Half) :
           /\ current \in Conns /\ toEmacs[current] # <<>>
           /\ toEmacs' = [toEmacs EXCEPT ![current] = rest]
           /\ received' = IF half.part = "header" THEN received
                          ELSE [received EXCEPT ![current] = Append(@, half.msg)]
           /\ UNCHANGED <<server, toServer, opened, current, emacsClosed, asked, unsent, written>>
  BY ReadIs DEF Types
<1>2. UNCHANGED <<backlog, opened, current, emacsClosed>>
  BY <1>1 DEF server
<1>3. \A c \in Conns : Waiting(c)' <=> Waiting(c)
  BY <1>2 DEF Waiting
<1>4. \A c \in Conns : c # current => toEmacs'[c] = toEmacs[c] /\ received'[c] = received[c]
  BY <1>1 DEF Types, TypeOK
<1>5. ~Waiting(current)
  BY <1>1 DEF FreshInv
<1> QED
  BY <1>2, <1>3, <1>4, <1>5, FreshKept DEF FreshInv

LEMMA FreshStep ==
  ASSUME Types, WayInv, FreshInv, [Next]_vars
  PROVE  FreshInv'
<1>1. CASE Send
  <2>1. UNCHANGED <<backlog, emacs>>
    BY <1>1 DEF Send
  <2> QED
    BY <1>1, <2>1, SendIs, ServerFresh DEF Types
<1>2. CASE Flush
  <2>1. UNCHANGED <<backlog, emacs>>
    BY <1>2 DEF Flush
  <2> QED
    BY <1>2, <2>1, FlushIs, ServerFresh DEF Types
<1>3. CASE RecvAll
  BY <1>3, ServerFresh DEF RecvAll
<1>4. CASE WriteBody \/ (\E kind \in Kinds : WriteHeader(kind)) \/ UNCHANGED vars
  <2>1. UNCHANGED <<backlog, opened, current, emacsClosed, received, toEmacs>>
    BY <1>4 DEF WriteBody, WriteHeader, vars, server, kernel, emacs
  <2>2. \A c \in Conns : Waiting(c)' <=> Waiting(c)
    BY <2>1 DEF Waiting
  <2> QED
    BY <2>1, <2>2, FreshKept DEF FreshInv
<1> QED
  BY <1>1, <1>2, <1>3, <1>4, AcceptFresh, AcceptFailsFresh, ConnectFresh, LeaveFresh, ReadFresh
  DEF Next, Compositor, Emacs

LEMMA InitFresh == Init => FreshInv
BY DEF Init, FreshInv, Waiting, None

----------------------------------------------------------------------------
(* Nothing is lost on the way: NothingLost is NothingLostOnTheWay with the *)
(* length of the run named.                                                *)

\* The messages up to the p-th, the last k of them.
Run(p, k) == [i \in 1 .. k |-> p - k + i]

LEMMA RunIs ==
  ASSUME NEW p \in Nat, NEW k \in Nat
  PROVE  /\ Run(p, k) \in Seq(Int) /\ Len(Run(p, k)) = k
         /\ \A i \in 1 .. k : Run(p, k)[i] = p - k + i
BY DEF Run

LEMMA RunNext ==
  ASSUME NEW p \in Nat, NEW k \in Nat
  PROVE  Append(Run(p, k), p + 1) = Run(p + 1, k + 1)
<1> DEFINE r == Run(p, k)
           s == Run(p + 1, k + 1)
<1>1. r \in Seq(Int) /\ Len(r) = k /\ \A i \in 1 .. k : r[i] = p - k + i
  BY RunIs
<1>2. s \in Seq(Int) /\ Len(s) = k + 1 /\ \A i \in 1 .. (k + 1) : s[i] = (p + 1) - (k + 1) + i
  BY RunIs
<1> HIDE DEF r, s
<1> DEFINE a == Append(r, p + 1)
<1>3. a \in Seq(Int) /\ Len(a) = k + 1 /\ a[k + 1] = p + 1 /\ \A i \in 1 .. k : a[i] = r[i]
  BY <1>1
<1> HIDE DEF a
<1>4. ASSUME NEW i \in 1 .. (k + 1) PROVE a[i] = s[i]
  <2>1. CASE i = k + 1
    BY <1>2, <1>3, <2>1
  <2>2. CASE i \in 1 .. k
    BY <1>1, <1>2, <1>3, <2>2
  <2> QED
    BY <2>1, <2>2
<1>5. a = s
  BY <1>2, <1>3, <1>4, SeqEqual
<1> QED
  BY <1>5 DEF a, r, s

LEMMA RunOfNone == \A p : Run(p, 0) = <<>>
BY DEF Run

\* What is on its way on a connection: received, held by the kernel, queued.
Way(c) == (received[c] \o Bodies(toEmacs[c])) \o Bodies(writeBuf)

\* A greeting and an unbroken run of messages up to the last one produced.
NothingLostOn(c) == \E k \in Nat : Way(c) = <<Connected>> \o Run(produced, k)

LEMMA GreetedRun ==
  ASSUME NEW p \in Nat, NEW k \in Nat
  PROVE  /\ <<Connected>> \o Run(p, k) \in Seq(Int)
         /\ Len(<<Connected>> \o Run(p, k)) = k + 1
<1>1. <<Connected>> \in Seq(Int) /\ Len(<<Connected>>) = 1
  BY DEF Connected
<1> DEFINE r == Run(p, k)
<1>2. r \in Seq(Int) /\ Len(r) = k
  BY RunIs
<1> HIDE DEF r
<1>3. <<Connected>> \o r \in Seq(Int) /\ Len(<<Connected>> \o r) = 1 + k
  BY <1>1, <1>2
<1> QED
  BY <1>3 DEF r

NothingLost ==
  IF connection = None THEN pending = Run(produced, Len(pending))
  ELSE connection \notin emacsClosed => NothingLostOn(connection)

LEMMA NothingLostIs ==
  ASSUME TypeOK
  PROVE  NothingLostOnTheWay <=> NothingLost
<1>1. produced \in Nat
  BY ConstantsAssumption DEF TypeOK
<1> DEFINE way == Way(connection)
<1>2. NothingLostOnTheWay <=>
        IF connection = None THEN pending = Run(produced, Len(pending))
        ELSE connection \notin emacsClosed => way = <<Connected>> \o Run(produced, Len(way) - 1)
  BY DEF NothingLostOnTheWay, Way, Run
<1>3. ASSUME connection \in Conns
      PROVE  NothingLostOn(connection) <=> way = <<Connected>> \o Run(produced, Len(way) - 1)
  <2>1. way \in Seq(AllMsgs)
    <3>1. /\ received[connection] \in Seq(AllMsgs)
          /\ toEmacs[connection] \in Seq(Half) /\ writeBuf \in Seq(Half)
      BY <1>3 DEF TypeOK, AllMsgs
    <3>2. Bodies(toEmacs[connection]) \in Seq(AllMsgs) /\ Bodies(writeBuf) \in Seq(AllMsgs)
      BY <3>1, BodiesType
    <3> QED
      BY <3>1, <3>2 DEF Way
  <2>2. ASSUME NEW k \in Nat, way = <<Connected>> \o Run(produced, k)
        PROVE  k = Len(way) - 1
    <3>1. Len(<<Connected>> \o Run(produced, k)) = k + 1
      BY <1>1, GreetedRun
    <3> QED
      BY <2>2, <3>1
  <2>3. ASSUME way = <<Connected>> \o Run(produced, Len(way) - 1)
        PROVE  Len(way) - 1 \in Nat
    <3>1. Len(way) \in Nat
      BY <2>1
    <3>2. Len(way) # 0
      <4> SUFFICES ASSUME Len(way) = 0 PROVE FALSE
        OBVIOUS
      <4>1. Run(produced, Len(way) - 1) = <<>>
        BY DEF Run
      <4>2. way = <<Connected>> \o <<>>
        BY <2>3, <4>1
      <4>3. Len(<<Connected>> \o <<>>) = 1
        BY DEF Connected
      <4> QED
        BY <4>2, <4>3
    <3> QED
      BY <3>1, <3>2
  <2> HIDE DEF way
  <2> QED
    BY <2>2, <2>3 DEF NothingLostOn, way
<1> HIDE DEF way
<1>4. connection = None \/ connection \in Conns
  BY DEF TypeOK
<1> QED
  BY <1>2, <1>3, <1>4 DEF NothingLost

----------------------------------------------------------------------------

\* Flushing moves messages along the way, and the way stays the same.
LEMMA FlushToWay ==
  ASSUME TypeOK, NEW c \in Conns, NEW buf \in Seq(Half), FlushTo(c, buf), UNCHANGED received
  PROVE  Way(c)' = (received[c] \o Bodies(toEmacs[c])) \o Bodies(buf)
<1>1. PICK a \in Seq(Half), b \in Seq(Half) :
        /\ buf = a \o b /\ toEmacs' = [toEmacs EXCEPT ![c] = @ \o a] /\ writeBuf' = b
  BY DEF FlushTo, Split
<1>2. received[c] \in Seq(AllMsgs) /\ toEmacs[c] \in Seq(Half) /\ toEmacs'[c] = toEmacs[c] \o a
  BY <1>1 DEF TypeOK, AllMsgs
<1>3. /\ Bodies(toEmacs[c] \o a) = Bodies(toEmacs[c]) \o Bodies(a)
      /\ Bodies(buf) = Bodies(a) \o Bodies(b)
  BY <1>1, <1>2, BodiesConcat
<1>4. PICK r \in Seq(AllMsgs), t \in Seq(AllMsgs), x \in Seq(AllMsgs), y \in Seq(AllMsgs) :
        r = received[c] /\ t = Bodies(toEmacs[c]) /\ x = Bodies(a) /\ y = Bodies(b)
  BY <1>2, BodiesType
<1>5. (r \o (t \o x)) \o y = (r \o t) \o (x \o y)
  <2>1. r \o t \in Seq(AllMsgs)
    OBVIOUS
  <2>2. Associate(r, t, x) /\ Associate(r \o t, x, y)
    BY <2>1, AllAssociate, Zenon
  <2> QED
    BY <2>2, Zenon DEF Associate
<1>6. Way(c)' = (received'[c] \o Bodies(toEmacs'[c])) \o Bodies(writeBuf')
  BY DEF Way
<1> QED
  BY <1>1, <1>2, <1>3, <1>4, <1>5, <1>6

LEMMA AcceptNothingLost ==
  ASSUME Types, WayInv, FreshInv, NothingLost, Accept
  PROVE  NothingLost'
<1> USE DEF NothingLost
<1> DEFINE first == Frames(<<Connected>> \o pending)
<1>1. PICK c \in Conns :
        /\ backlog # <<>> /\ c = Head(backlog) /\ connection' = c
        /\ FlushTo(c, first)
        /\ UNCHANGED <<produced, emacs>>
  BY AcceptIs DEF Types
<1>2. received[c] = <<>> /\ toEmacs[c] = <<>>
  <2>1. Len(backlog) \in Nat \ {0} /\ c = backlog[1]
    BY <1>1 DEF Types, TypeOK
  <2>2. Waiting(c)
    BY <2>1 DEF Waiting
  <2> QED
    BY <2>2 DEF FreshInv
<1>3. pending = Run(produced, Len(pending))
  <2>1. CASE connection = None
    BY <2>1 DEF Types
  <2>2. CASE connection # None
    <3>1. pending = <<>> /\ Len(<<>>) = 0
      BY <2>2 DEF WayInv, OneWay
    <3> QED
      BY <3>1, RunOfNone
  <2> QED
    BY <2>1, <2>2
<1>4. first \in Seq(Half) /\ Bodies(first) = <<Connected>> \o pending
  BY Greeted DEF Types, TypeOK
<1>5. PICK q \in Seq(AllMsgs) : q = <<Connected>> \o pending
  BY Greeted DEF Types, TypeOK
<1> HIDE DEF first
<1>6. Way(c)' = (received[c] \o Bodies(toEmacs[c])) \o Bodies(first)
  BY <1>1, <1>4, FlushToWay DEF Types, emacs
<1>7. (<<>> \o <<>>) \o q = q
  OBVIOUS
<1>8. Way(c)' = q
  BY <1>2, <1>4, <1>5, <1>6, <1>7, BodiesOfNone
<1>9. Way(c)' = <<Connected>> \o Run(produced, Len(pending)) /\ Len(pending) \in Nat
  <2>1. Len(pending) \in Nat
    BY DEF Types, TypeOK
  <2> QED
    BY <1>3, <1>5, <1>8, <2>1, Zenon
<1>10. connection' # None
  BY <1>1 DEF Conns, None
<1>11. Way(connection)' = Way(c)'
  BY <1>1 DEF Way
<1> QED
  BY <1>1, <1>9, <1>10, <1>11 DEF NothingLostOn

LEMMA SendNothingLost ==
  ASSUME Types, WayInv, FreshInv, NothingLost, Send
  PROVE  NothingLost'
<1> USE DEF NothingLost
<1>0. UNCHANGED <<emacsClosed, received>> /\ produced \in Nat /\ pending \in Seq(Msgs)
  BY ConstantsAssumption DEF Send, emacs, Types, TypeOK
<1>1. /\ produced' = produced + 1 /\ produced' \in Msgs
      /\ \/ /\ connection = None
            /\ pending' = Append(pending, produced')
            /\ UNCHANGED connection
         \/ /\ connection \in Conns \ emacsClosed
            /\ FlushTo(connection, writeBuf \o Frames(<<produced'>>))
            /\ UNCHANGED <<connection, pending, readBuf, serverClosed>>
         \/ /\ connection \in Conns \cap emacsClosed
            /\ Disconnect
            /\ UNCHANGED <<pending, toEmacs>>
  BY SendIs DEF Types
<1>2. CASE connection = None /\ pending' = Append(pending, produced') /\ UNCHANGED connection
  <2>1. PICK k \in Nat : k = Len(pending) /\ pending = Run(produced, k)
    BY <1>0, <1>2 DEF Types
  <2>2. pending' = Run(produced + 1, k + 1) /\ Len(pending') = k + 1
    <3>1. pending' = Append(Run(produced, k), produced + 1)
      BY <1>1, <1>2, <2>1
    <3>2. pending' = Run(produced + 1, k + 1)
      BY <1>0, <3>1, RunNext
    <3>3. produced + 1 \in Nat /\ k + 1 \in Nat
      BY <1>0
    <3> QED
      BY <3>2, <3>3, RunIs
  <2> QED
    BY <1>1, <1>2, <2>2
<1>3. CASE /\ connection \in Conns \ emacsClosed
           /\ FlushTo(connection, writeBuf \o Frames(<<produced'>>))
           /\ UNCHANGED connection
  <2>1. PICK k \in Nat : Way(connection) = <<Connected>> \o Run(produced, k)
    BY <1>3 DEF Types, NothingLostOn, Conns, None
  <2>2. PICK f \in Seq(Half) : f = Frames(<<produced'>>) /\ Bodies(f) = <<produced'>>
    BY <1>1, FramesOfOne DEF AllMsgs
  <2>3. PICK w \in Seq(Half) : w = writeBuf
    BY DEF Types, TypeOK
  <2>4. PICK buf \in Seq(Half) : buf = w \o f
    <3>1. w \o f \in Seq(Half)
      OBVIOUS
    <3> QED
      BY <3>1, Zenon
  <2>5. FlushTo(connection, buf)
    BY <1>3, <2>2, <2>3, <2>4
  <2>6. Way(connection)' = (received[connection] \o Bodies(toEmacs[connection])) \o Bodies(buf)
    <3>1. \A c \in Conns : FlushTo(c, buf) =>
            (received'[c] \o Bodies(toEmacs'[c])) \o Bodies(writeBuf') =
            (received[c] \o Bodies(toEmacs[c])) \o Bodies(buf)
      BY <1>0, FlushToWay DEF Types, Way
    <3>2. Way(connection)' = (received'[connection] \o Bodies(toEmacs'[connection])) \o Bodies(writeBuf')
      BY <1>3 DEF Way
    <3> QED
      BY <1>3, <2>5, <3>1, <3>2
  <2>7. Bodies(buf) = Bodies(w) \o <<produced'>>
    BY <2>2, <2>4, BodiesConcat
  <2>8. PICK p \in Seq(AllMsgs), y \in Seq(AllMsgs) :
          p = received[connection] \o Bodies(toEmacs[connection]) /\ y = Bodies(w)
    <3>1. received[connection] \in Seq(AllMsgs) /\ toEmacs[connection] \in Seq(Half)
      BY <1>3 DEF Types, TypeOK, AllMsgs
    <3>2. Bodies(toEmacs[connection]) \in Seq(AllMsgs) /\ Bodies(w) \in Seq(AllMsgs)
      BY <3>1, BodiesType
    <3>3. received[connection] \o Bodies(toEmacs[connection]) \in Seq(AllMsgs)
      BY <3>1, <3>2
    <3> QED
      BY <3>2, <3>3
  <2>9. p \o (y \o <<produced'>>) = Append(p \o y, produced')
    <3>1. produced' \in AllMsgs
      BY <1>1 DEF AllMsgs
    <3> QED
      BY <3>1
  <2>10. Way(connection)' = Append(<<Connected>> \o Run(produced, k), produced + 1)
    BY <1>1, <2>1, <2>3, <2>6, <2>7, <2>8, <2>9 DEF Way
  <2>11. Append(<<Connected>> \o Run(produced, k), produced + 1)
         = <<Connected>> \o Append(Run(produced, k), produced + 1)
    <3>1. <<Connected>> \in Seq(Int) /\ Run(produced, k) \in Seq(Int) /\ produced + 1 \in Int
      BY <1>0, RunIs DEF Connected
    <3> QED
      BY <3>1
  <2>12. Way(connection)' = <<Connected>> \o Run(produced', k + 1)
    BY <1>0, <1>1, <2>10, <2>11, RunNext
  <2>13. connection' # None
    BY <1>3 DEF Conns, None
  <2>14. NothingLostOn(connection)'
    <3>1. k + 1 \in Nat
      OBVIOUS
    <3> QED
      BY <2>12, <3>1, Zenon DEF NothingLostOn
  <2> QED
    BY <2>13, <2>14
<1>4. CASE connection \in Conns /\ Disconnect /\ UNCHANGED pending
  <2>1. connection' = None
    BY <1>4 DEF Disconnect
  <2>2. pending = <<>> /\ Len(<<>>) = 0
    BY <1>4 DEF WayInv, OneWay, Conns, None
  <2> QED
    BY <1>4, <2>1, <2>2, RunOfNone
<1> QED
  BY <1>1, <1>2, <1>3, <1>4

LEMMA FlushNothingLost ==
  ASSUME Types, WayInv, NothingLost, Flush
  PROVE  NothingLost'
<1> USE DEF NothingLost
<1>1. /\ UNCHANGED <<produced, pending, emacs>>
      /\ \/ UNCHANGED <<connection, writeBuf, toEmacs>>
         \/ /\ connection \in Conns \ emacsClosed
            /\ FlushTo(connection, writeBuf)
            /\ UNCHANGED connection
         \/ /\ connection \in Conns \cap emacsClosed
            /\ Disconnect
  BY FlushIs DEF Types
<1>0. UNCHANGED <<emacsClosed, received>>
  BY <1>1 DEF emacs
<1>2. CASE UNCHANGED <<connection, writeBuf, toEmacs>>
  <2>1. NothingLostOn(connection)' <=> NothingLostOn(connection)
    BY <1>0, <1>1, <1>2 DEF NothingLostOn, Way
  <2> QED
    BY <1>0, <1>1, <1>2, <2>1 DEF Types
<1>3. CASE /\ connection \in Conns \ emacsClosed
           /\ FlushTo(connection, writeBuf)
           /\ UNCHANGED connection
  <2>1. writeBuf \in Seq(Half)
    BY DEF Types, TypeOK
  <2>2. \A c \in Conns : FlushTo(c, writeBuf) =>
          (received'[c] \o Bodies(toEmacs'[c])) \o Bodies(writeBuf') = Way(c)
    BY <1>0, <2>1, FlushToWay DEF Types, Way
  <2>3. Way(connection)' = Way(connection)
    BY <1>3, <2>2 DEF Way
  <2>4. NothingLostOn(connection)' <=> NothingLostOn(connection)
    BY <1>1, <2>3 DEF NothingLostOn
  <2>5. NothingLostOn(connection) /\ connection # None
    BY <1>3 DEF Types, Conns, None
  <2> QED
    BY <1>3, <2>4, <2>5
<1>4. CASE connection \in Conns /\ Disconnect
  <2>1. connection' = None
    BY <1>4 DEF Disconnect
  <2>2. pending = <<>> /\ Len(<<>>) = 0
    BY <1>4 DEF WayInv, OneWay, Conns, None
  <2> QED
    BY <1>1, <2>1, <2>2, RunOfNone
<1> QED
  BY <1>1, <1>2, <1>3, <1>4

LEMMA RecvAllNothingLost ==
  ASSUME Types, WayInv, NothingLost, RecvAll
  PROVE  NothingLost'
<1> USE DEF NothingLost
<1>1. /\ UNCHANGED <<produced, pending, toEmacs, emacs>>
      /\ \/ UNCHANGED <<connection, writeBuf>>
         \/ connection \in Conns /\ Disconnect
  BY RecvAllIs DEF Types
<1>0. UNCHANGED <<emacsClosed, received>>
  BY <1>1 DEF emacs
<1>2. CASE UNCHANGED <<connection, writeBuf>>
  <2>1. NothingLostOn(connection)' <=> NothingLostOn(connection)
    BY <1>0, <1>1, <1>2 DEF NothingLostOn, Way
  <2> QED
    BY <1>0, <1>1, <1>2, <2>1 DEF Types
<1>4. CASE connection \in Conns /\ Disconnect
  <2>1. connection' = None
    BY <1>4 DEF Disconnect
  <2>2. pending = <<>> /\ Len(<<>>) = 0
    BY <1>4 DEF WayInv, OneWay, Conns, None
  <2> QED
    BY <1>1, <2>1, <2>2, RunOfNone
<1> QED
  BY <1>1, <1>2, <1>4

\* Emacs reads a half: what it has received and what the kernel holds stay the same together.
LEMMA ReadKeepsWay ==
  ASSUME Types, Read, connection # None
  PROVE  Way(connection)' = Way(connection)
<1>1. PICK half \in Half, rest \in Seq(Half) :
           /\ current \in Conns /\ toEmacs[current] # <<>>
           /\ half = Head(toEmacs[current]) /\ rest = Tail(toEmacs[current])
           /\ toEmacs' = [toEmacs EXCEPT ![current] = rest]
           /\ received' = IF half.part = "header" THEN received
                          ELSE [received EXCEPT ![current] = Append(@, half.msg)]
           /\ UNCHANGED server
  BY ReadIs DEF Types
<1>2. UNCHANGED <<connection, writeBuf>> /\ connection \in Conns
  BY <1>1 DEF server, Types, TypeOK
<1>3. CASE current # connection
  <2>1. toEmacs'[connection] = toEmacs[connection] /\ received'[connection] = received[connection]
    BY <1>1, <1>2, <1>3 DEF Types, TypeOK
  <2> QED
    BY <1>2, <2>1 DEF Way
<1>4. CASE current = connection
  <2>1. PICK q \in Seq(Half) : q = toEmacs[current]
    BY <1>1 DEF Types, TypeOK
  <2>2. Bodies(q) = IF half.part = "body" THEN <<half.msg>> \o Bodies(rest) ELSE Bodies(rest)
    BY <1>1, <2>1, BodiesHead
  <2>3. PICK p \in Seq(AllMsgs), t \in Seq(AllMsgs) : p = received[current] /\ t = Bodies(rest)
    <3>1. received[current] \in Seq(AllMsgs)
      BY <1>1 DEF Types, TypeOK, AllMsgs
    <3> QED
      BY <3>1, BodiesType
  <2>4. toEmacs'[current] = rest
    BY <1>1 DEF Types, TypeOK
  <2>5. received'[current] = IF half.part = "header" THEN p ELSE Append(p, half.msg)
    BY <1>1, <2>3 DEF Types, TypeOK
  <2>6. half.part \in {"header", "body"} /\ half.msg \in AllMsgs
    BY DEF Half, Parts, AllMsgs
  <2>7. Append(p, half.msg) \o t = p \o (<<half.msg>> \o t)
    <3>1. PICK m \in AllMsgs : m = half.msg
      BY <2>6
    <3>2. Append(p, m) \o t = p \o (<<m>> \o t)
      OBVIOUS
    <3> QED
      BY <3>1, <3>2
  <2>8. received'[current] \o Bodies(toEmacs'[current]) = received[current] \o Bodies(toEmacs[current])
    <3>1. CASE half.part = "header"
      BY <2>1, <2>2, <2>3, <2>4, <2>5, <3>1
    <3>2. CASE half.part = "body"
      BY <2>1, <2>2, <2>3, <2>4, <2>5, <2>7, <3>2
    <3> QED
      BY <2>6, <3>1, <3>2
  <2> QED
    BY <1>2, <1>4, <2>8 DEF Way
<1> QED
  BY <1>3, <1>4

\* What Emacs does to its side.
LEMMA EmacsNothingLost ==
  ASSUME Types, WayInv, NothingLost,
         UNCHANGED <<produced, connection, pending, writeBuf>>,
         \/ UNCHANGED <<emacsClosed, received, toEmacs>>
         \/ /\ current \in Conns /\ emacsClosed' = emacsClosed \cup {current}
            /\ toEmacs' = [toEmacs EXCEPT ![current] = <<>>] \/ UNCHANGED toEmacs
            /\ UNCHANGED received
         \/ Read
  PROVE  NothingLost'
<1> USE DEF NothingLost
<1>1. CASE connection = None
  BY <1>1 DEF Types
<1>2. CASE connection # None /\ connection \notin emacsClosed'
  <2>1. connection \in Conns /\ connection \notin emacsClosed
    BY <1>2, ReadIs DEF Types, TypeOK
  <2>2. NothingLostOn(connection)
    BY <1>2, <2>1 DEF Types
  <2>3. Way(connection)' = Way(connection)
    <3>1. CASE Read
      BY <1>2, <3>1, ReadKeepsWay
    <3>2. CASE UNCHANGED <<received, toEmacs>>
      BY <3>2 DEF Way
    <3>3. CASE /\ current \in Conns /\ emacsClosed' = emacsClosed \cup {current}
               /\ toEmacs' = [toEmacs EXCEPT ![current] = <<>>] /\ UNCHANGED received
      <4>1. toEmacs'[connection] = toEmacs[connection]
        BY <1>2, <2>1, <3>3 DEF Types, TypeOK
      <4> QED
        BY <3>3, <4>1 DEF Way
    <3> QED
      BY <3>1, <3>2, <3>3
  <2>4. NothingLostOn(connection)' <=> NothingLostOn(connection)
    BY <2>3 DEF NothingLostOn
  <2> QED
    BY <1>2, <2>2, <2>4
<1> QED
  BY <1>1, <1>2

LEMMA NothingLostStep ==
  ASSUME Types, WayInv, FreshInv, NothingLost, [Next]_vars
  PROVE  NothingLost'
<1>1. CASE AcceptFails
  BY <1>1, EmacsNothingLost DEF AcceptFails, kernel, emacs
<1>2. CASE Connect
  <2>1. UNCHANGED <<produced, connection, pending, writeBuf, received>>
    BY <1>2 DEF Connect
  <2>2. IF current = None THEN UNCHANGED <<emacsClosed, toEmacs>> ELSE Hangup(current)
    BY <1>2 DEF Connect
  <2>3. current \in Conns \cup {None}
    BY DEF Types, TypeOK
  <2> QED
    BY <2>1, <2>2, <2>3, EmacsNothingLost DEF Hangup
<1>3. CASE Leave \/ NoticeClose
  <2>1. /\ UNCHANGED <<produced, connection, pending, writeBuf, received>>
        /\ current # None /\ emacsClosed' = emacsClosed \cup {current}
        /\ toEmacs' = [toEmacs EXCEPT ![current] = <<>>] \/ UNCHANGED toEmacs
    <3>1. CASE Leave
      BY <3>1 DEF Leave, Hangup, server
    <3>2. CASE NoticeClose
      <4>1. None \notin serverClosed
        BY DEF WayInv, BacklogInv, None
      <4> QED
        BY <3>2, <4>1 DEF NoticeClose, server, kernel
    <3> QED
      BY <1>3, <3>1, <3>2
  <2>2. current \in Conns
    BY <2>1 DEF Types, TypeOK
  <2> QED
    BY <2>1, <2>2, EmacsNothingLost
<1>4. CASE Read
  <2>1. UNCHANGED <<produced, connection, pending, writeBuf>>
    BY <1>4 DEF Read, server
  <2> QED
    BY <1>4, <2>1, EmacsNothingLost
<1>5. CASE WriteBody \/ (\E kind \in Kinds : WriteHeader(kind)) \/ UNCHANGED vars
  <2>1. UNCHANGED <<produced, connection, pending, writeBuf, emacsClosed, received, toEmacs>>
    BY <1>5 DEF WriteBody, WriteHeader, vars, server, kernel, emacs
  <2> QED
    BY <2>1, EmacsNothingLost
<1>6. CASE Accept
  BY <1>6, AcceptNothingLost
<1>7. CASE Send
  BY <1>7, SendNothingLost
<1>8. CASE RecvAll
  BY <1>8, RecvAllNothingLost
<1>9. CASE Flush
  BY <1>9, FlushNothingLost
<1> QED
  BY <1>1, <1>2, <1>3, <1>4, <1>5, <1>6, <1>7, <1>8, <1>9 DEF Next, Compositor, Emacs

LEMMA InitNothingLost == Init => NothingLost
<1>1. <<>> = Run(0, 0) /\ Len(<<>>) = 0
  BY RunOfNone
<1> QED
  BY <1>1 DEF Init, NothingLost

----------------------------------------------------------------------------
(* Requests in order. On a connection the compositor has not closed, what  *)
(* is dispatched and what is still to be decoded add up to what Emacs wrote;*)
(* on one it has closed, a prefix of it has been dispatched.               *)

\* What Emacs has written on a connection and the compositor has not decoded.
Left(c) == (IF c = connection THEN readBuf ELSE <<>>) \o toServer[c]

\* Dispatched and still to be decoded add up to written.
Flow(c) == written[c] = handled[c] \o Decoded(Left(c)) /\ Alternates(Left(c))

\* Emacs is between two frames, or has the body of one to write.
Pace ==
  \/ unsent = <<>> /\ Len(Left(current)) % 2 = 0
  \/ (\E h \in ReqHalf : unsent = <<h>> /\ h.part = "body") /\ Len(Left(current)) % 2 = 1

\* The inductive invariant behind RequestsInOrder.
ReqInv ==
  /\ \A c \in Conns : c > opened => toServer[c] = <<>>
  /\ \A c \in Conns \ serverClosed : Flow(c)
  /\ \A c \in serverClosed : IsPrefix(handled[c], written[c])
  /\ current \notin serverClosed \cup {None} => Pace

LEMMA PrefixOfConcat ==
  ASSUME NEW S, NEW q \in Seq(S), NEW r \in Seq(S)
  PROVE  IsPrefix(q, q \o r)
<1> DEFINE t == q \o r
<1>1. t \in Seq(S) /\ Len(t) = Len(q) + Len(r) /\ \A i \in 1 .. Len(q) : t[i] = q[i]
  BY Concatenated
<1>2. Len(q) \in Nat /\ Len(r) \in Nat
  OBVIOUS
<1> HIDE DEF t
<1> DEFINE a == SubSeq(q, 1, Len(q))
           b == SubSeq(t, 1, Len(q))
<1>3. a \in Seq(S) /\ Len(a) = Len(q) /\ \A i \in 1 .. Len(q) : a[i] = q[i]
  BY <1>2
<1>4. b \in Seq(S) /\ Len(b) = Len(q) /\ \A i \in 1 .. Len(q) : b[i] = t[i]
  BY <1>1, <1>2
<1> HIDE DEF a, b
<1>5. a = b
  BY <1>1, <1>3, <1>4, SeqEqual
<1>6. Len(q) <= Len(t)
  BY <1>1, <1>2
<1> QED
  BY <1>5, <1>6 DEF IsPrefix, a, b, t

LEMMA LeftType ==
  ASSUME TypeOK, NEW c \in Conns
  PROVE  Left(c) \in Seq(ReqHalf)
BY SomeNone DEF Left, TypeOK

LEMMA FlowPrefix ==
  ASSUME TypeOK, NEW c \in Conns, Flow(c)
  PROVE  IsPrefix(handled[c], written[c])
<1>1. handled[c] \in Seq(Reqs) /\ Decoded(Left(c)) \in Seq(Reqs)
  BY LeftType, DecodedType DEF TypeOK
<1> QED
  BY <1>1, PrefixOfConcat DEF Flow

\* A step that decodes nothing and writes nothing: connections that stay open keep what is left.
LEMMA ReqKept ==
  ASSUME Types, ReqInv, UNCHANGED <<handled, written, current, unsent, opened>>,
         serverClosed \subseteq serverClosed', serverClosed' \subseteq Conns,
         \A c \in Conns : c > opened => toServer'[c] = <<>>,
         \A c \in Conns \ serverClosed' : Left(c)' = Left(c)
  PROVE  ReqInv'
<1>1. \A c \in Conns \ serverClosed' : Flow(c)'
  BY DEF ReqInv, Flow
<1>2. \A c \in serverClosed' : IsPrefix(handled'[c], written'[c])
  <2>1. \A c \in Conns : Flow(c) => IsPrefix(handled[c], written[c])
    BY FlowPrefix DEF Types
  <2> QED
    BY <2>1 DEF ReqInv
<1>3. current' \notin serverClosed' \cup {None} => Pace'
  <2> SUFFICES ASSUME current' \notin serverClosed' \cup {None} PROVE Pace'
    OBVIOUS
  <2>1. current \in Conns \ serverClosed' /\ current \notin serverClosed \cup {None}
    BY DEF Types, TypeOK
  <2>2. Left(current)' = Left(current)
    BY <2>1 DEF Left
  <2>3. Pace
    BY <2>1 DEF ReqInv
  <2> QED
    BY <2>2, <2>3 DEF Pace
<1> QED
  BY <1>1, <1>2, <1>3 DEF ReqInv

\* The connection may be closed, and the buffer of the one that is then in use is empty.
LEMMA ServerReq ==
  ASSUME Types, WayInv, ReqInv, UNCHANGED <<handled, toServer, emacs>>,
         serverClosed \subseteq serverClosed', serverClosed' \subseteq Conns,
         \/ UNCHANGED <<connection, readBuf>>
         \/ connection' # connection /\ readBuf' = <<>> /\ connection \in serverClosed' \cup {None}
  PROVE  ReqInv'
<1>1. UNCHANGED <<written, current, unsent, opened>>
  BY DEF emacs
<1>2. \A c \in Conns \ serverClosed' : Left(c)' = Left(c)
  <2> SUFFICES ASSUME NEW c \in Conns \ serverClosed' PROVE Left(c)' = Left(c)
    OBVIOUS
  <2>1. CASE UNCHANGED <<connection, readBuf>>
    BY <2>1 DEF Left
  <2>2. CASE connection' # connection /\ readBuf' = <<>> /\ connection \in serverClosed' \cup {None}
    <3>1. c # connection
      BY <2>2 DEF Conns, None
    <3>2. Left(c) = <<>> \o toServer[c]
      BY <3>1 DEF Left
    <3>3. Left(c)' = <<>> \o toServer[c]
      BY <2>2 DEF Left
    <3> QED
      BY <3>2, <3>3
  <2> QED
    BY <2>1, <2>2
<1> QED
  BY <1>1, <1>2, ReqKept DEF ReqInv

LEMMA DisconnectReq ==
  ASSUME Types, WayInv, ReqInv, UNCHANGED <<handled, toServer, emacs>>,
         connection \in Conns, Disconnect
  PROVE  ReqInv'
<1>1. /\ connection' = None /\ serverClosed' = serverClosed \cup {connection} /\ readBuf' = <<>>
  BY DEF Disconnect
<1>2. serverClosed' \subseteq Conns /\ connection # None
  BY <1>1 DEF Types, TypeOK, Conns, None
<1> QED
  BY <1>1, <1>2, ServerReq

\* All that is left is decoded, but for a header that waits for its body.
LEMMA DecodeReq ==
  ASSUME Types, WayInv, ReqInv, NEW read \in Seq(ReqHalf),
         UNCHANGED emacs, connection \in Conns, read = readBuf \o toServer[connection],
         toServer' = [toServer EXCEPT ![connection] = <<>>],
         readBuf' = Undecoded(read),
         handled' = [handled EXCEPT ![connection] = @ \o Decoded(read)],
         UNCHANGED <<connection, serverClosed>>
  PROVE  ReqInv'
<1>0. UNCHANGED <<written, current, unsent, opened>>
  BY DEF emacs
<1>1. connection \notin serverClosed /\ connection # None /\ connection <= opened
  BY DEF WayInv, OneWay, BacklogInv, Conns, None
<1>2. Left(connection) = read /\ Flow(connection)
  BY <1>1 DEF Left, ReqInv
<1>3. PICK u \in Seq(ReqHalf), d \in Seq(Reqs), h \in Seq(Reqs) :
        /\ u = Undecoded(read) /\ d = Decoded(read) /\ h = handled[connection]
        /\ Len(u) = Len(read) % 2 /\ Alternates(u) /\ Decoded(u) = <<>>
  <2>1. Alternates(read)
    BY <1>2 DEF Flow
  <2>2. handled[connection] \in Seq(Reqs)
    BY DEF Types, TypeOK
  <2> QED
    BY <2>1, <2>2, UndecodedIs, DecodedType
<1>4. toServer'[connection] = <<>> /\ handled'[connection] = h \o d
  BY <1>3 DEF Types, TypeOK
<1>5. Left(connection)' = u
  <2>1. Left(connection)' = u \o <<>>
    BY <1>3, <1>4 DEF Left
  <2>2. u \o <<>> = u
    OBVIOUS
  <2> QED
    BY <2>1, <2>2
<1>6. Flow(connection)'
  <2>1. written[connection] = h \o d
    BY <1>2, <1>3 DEF Flow
  <2>2. (h \o d) \o <<>> = h \o d
    OBVIOUS
  <2>3. Decoded(Left(connection)') = <<>> /\ Alternates(Left(connection)')
    BY <1>3, <1>5
  <2>4. written'[connection'] = handled'[connection'] \o Decoded(Left(connection)')
    BY <1>0, <1>4, <2>1, <2>2, <2>3
  <2> QED
    BY <2>3, <2>4 DEF Flow
<1>7. \A c \in Conns : c # connection => Left(c)' = Left(c) /\ handled'[c] = handled[c]
  BY DEF Left, Types, TypeOK
<1>8. \A c \in Conns \ serverClosed' : Flow(c)'
  <2> SUFFICES ASSUME NEW c \in Conns \ serverClosed' PROVE Flow(c)'
    OBVIOUS
  <2>1. CASE c = connection
    <3>1. Left(c)' = Left(connection)'
      BY <2>1 DEF Left
    <3> QED
      BY <1>6, <2>1, <3>1 DEF Flow
  <2>2. CASE c # connection
    BY <1>0, <1>7, <2>2 DEF ReqInv, Flow
  <2> QED
    BY <2>1, <2>2
<1>9. current' \notin serverClosed' \cup {None} => Pace'
  <2> SUFFICES ASSUME current \notin serverClosed \cup {None} PROVE Pace'
    BY <1>0
  <2>1. Pace /\ current \in Conns
    BY DEF ReqInv, Types, TypeOK
  <2>2. Len(Left(current)') % 2 = Len(Left(current)) % 2
    <3>1. CASE current = connection
      <4>1. (Len(read) % 2) % 2 = Len(read) % 2
        <5>1. PICK n \in Nat : n = Len(read)
          OBVIOUS
        <5>2. n % 2 = 0 \/ n % 2 = 1
          OBVIOUS
        <5>3. (n % 2) % 2 = n % 2
          BY <5>2
        <5> QED
          BY <5>1, <5>3
      <4>2. Left(current)' = Left(connection)' /\ Left(current) = read
        BY <1>0, <1>2, <3>1 DEF Left
      <4> QED
        BY <1>3, <1>5, <4>1, <4>2
    <3>2. CASE current # connection
      <4>1. Left(current)' = Left(current)
        BY <1>0, <1>7, <2>1, <3>2 DEF Left
      <4> QED
        BY <4>1
    <3> QED
      BY <3>1, <3>2
  <2> QED
    BY <1>0, <2>1, <2>2 DEF Pace
<1>10. \A c \in Conns : c > opened' => toServer'[c] = <<>>
  BY <1>0, <1>1 DEF ReqInv, Types, TypeOK
<1>11. \A c \in serverClosed' : IsPrefix(handled'[c], written'[c])
  BY <1>0, <1>1, <1>7 DEF ReqInv, Types, TypeOK
<1> QED
  BY <1>8, <1>9, <1>10, <1>11 DEF ReqInv

----------------------------------------------------------------------------

\* Emacs writes a half more on the connection it uses.
LEMMA LeftGrows ==
  ASSUME Types, current \in Conns, NEW h \in ReqHalf,
         toServer' = [toServer EXCEPT ![current] = Append(@, h)],
         UNCHANGED <<connection, readBuf, current>>
  PROVE  /\ Left(current)' = Append(Left(current), h)
         /\ \A c \in Conns : c # current => Left(c)' = Left(c)
<1>1. PICK b \in Seq(ReqHalf), t \in Seq(ReqHalf) :
        b = (IF current = connection THEN readBuf ELSE <<>>) /\ t = toServer[current]
  BY SomeNone DEF Types, TypeOK
<1>2. toServer'[current] = Append(t, h)
  BY <1>1 DEF Types, TypeOK
<1>3. b \o Append(t, h) = Append(b \o t, h)
  BY AppendOfConcat
<1>4. Left(current)' = b \o toServer'[current] /\ Left(current) = b \o t
  BY <1>1 DEF Left
<1>5. \A c \in Conns : c # current => Left(c)' = Left(c)
  BY DEF Left, Types, TypeOK
<1> QED
  BY <1>2, <1>3, <1>4, <1>5

LEMMA DecodedMore ==
  ASSUME NEW q \in Seq(ReqHalf), NEW h \in ReqHalf
  PROVE  Decoded(Append(q, h)) = Decoded(q) \o
           (IF h.part = "body" /\ h.kind = "ok" THEN <<h.msg>> ELSE <<>>)
<1>1. <<h>> \in Seq(ReqHalf) /\ Append(q, h) = q \o <<h>>
  OBVIOUS
<1>2. Decoded(q \o <<h>>) = Decoded(q) \o Decoded(<<h>>)
  BY <1>1, DecodedConcat
<1> QED
  BY <1>1, <1>2, DecodedOne

\* A half in its turn goes on a connection that stays open; a body that parses is a request more.
LEMMA WriteReq ==
  ASSUME Types, FreshInv, ReqInv, NEW h \in ReqHalf, current \in Conns \ serverClosed,
         toServer' = [toServer EXCEPT ![current] = Append(@, h)],
         UNCHANGED <<server, opened, current>>,
         h.part = "body" <=> Len(Left(current)) % 2 = 1,
         IF h.part = "body" /\ h.kind = "ok"
         THEN written' = [written EXCEPT ![current] = Append(@, h.msg)]
         ELSE UNCHANGED written,
         IF h.part = "body" THEN unsent' = <<>>
         ELSE \E b \in ReqHalf : unsent' = <<b>> /\ b.part = "body"
  PROVE  ReqInv'
<1>0. UNCHANGED <<connection, readBuf, handled, serverClosed>>
  BY DEF server
<1>1. PICK q \in Seq(ReqHalf), n \in Nat : q = Left(current) /\ n = Len(q)
  <2>1. Left(current) \in Seq(ReqHalf)
    BY LeftType DEF Types
  <2>2. Len(Left(current)) \in Nat
    BY <2>1
  <2> QED
    BY <2>1, <2>2
<1>2. /\ Left(current)' = Append(q, h)
      /\ \A c \in Conns : c # current => Left(c)' = Left(c)
  BY <1>0, <1>1, LeftGrows
<1>3. Len(Append(q, h)) = n + 1
  BY <1>1
<1>4. (n + 1) % 2 = 0 <=> n % 2 = 1
  OBVIOUS
<1>5. Flow(current)
  BY DEF ReqInv
<1>6. PICK d \in Seq(Reqs), g \in Seq(Reqs) :
        d = Decoded(q) /\ g = handled[current] /\ written[current] = g \o d
  <2>1. handled[current] \in Seq(Reqs) /\ Decoded(q) \in Seq(Reqs)
    BY DecodedType DEF Types, TypeOK
  <2> QED
    BY <1>1, <1>5, <2>1 DEF Flow
<1>7. Alternates(Append(q, h))
  BY <1>1, <1>4, <1>5, AlternatesAppend DEF Flow
<1>8. written'[current] = g \o Decoded(Append(q, h))
  <2>1. CASE h.part = "body" /\ h.kind = "ok"
    <3>1. written'[current] = Append(g \o d, h.msg)
      BY <1>6, <2>1 DEF Types, TypeOK
    <3>2. h.msg \in Reqs
      BY ReqBodyOf
    <3>3. Append(g \o d, h.msg) = g \o (d \o <<h.msg>>)
      <4>1. PICK x \in Reqs, e \in Seq(Reqs) : x = h.msg /\ e = <<x>>
        <5>1. \A x \in Reqs : <<x>> \in Seq(Reqs)
          OBVIOUS
        <5> QED
          BY <3>2, <5>1
      <4>2. PICK u \in Seq(Reqs) : u = g \o d
        <5>1. g \o d \in Seq(Reqs)
          OBVIOUS
        <5> QED
          BY <5>1, Zenon
      <4>3. Append(u, x) = u \o e
        <5>1. Append(u, x) = u \o <<x>>
          OBVIOUS
        <5> QED
          BY <4>1, <5>1
      <4>4. (g \o d) \o e = g \o (d \o e)
        OBVIOUS
      <4> QED
        BY <4>1, <4>2, <4>3, <4>4
    <3> QED
      BY <1>6, <2>1, <3>1, <3>3, DecodedMore
  <2>2. CASE ~(h.part = "body" /\ h.kind = "ok")
    <3>1. d \o <<>> = d
      OBVIOUS
    <3> QED
      BY <1>6, <2>2, <3>1, DecodedMore
  <2> QED
    BY <2>1, <2>2
<1>9. \A c \in Conns : c # current => written'[c] = written[c]
  BY DEF Types, TypeOK
<1>10. \A c \in Conns \ serverClosed' : Flow(c)'
  <2> SUFFICES ASSUME NEW c \in Conns \ serverClosed PROVE Flow(c)'
    BY <1>0
  <2>1. CASE c = current
    <3>1. Left(c)' = Left(current)'
      BY <1>2, <2>1 DEF Left
    <3> QED
      BY <1>0, <1>2, <1>6, <1>7, <1>8, <2>1, <3>1 DEF Flow
  <2>2. CASE c # current
    BY <1>0, <1>2, <1>9, <2>2 DEF ReqInv, Flow
  <2> QED
    BY <2>1, <2>2
<1>11. Pace'
  <2>1. Len(Left(current)') % 2 = IF h.part = "body" THEN 0 ELSE 1
    <3>1. n % 2 = 0 \/ n % 2 = 1
      OBVIOUS
    <3>2. n % 2 = 1 => (n + 1) % 2 = 0
      BY <1>4
    <3>3. n % 2 = 0 => (n + 1) % 2 = 1
      OBVIOUS
    <3>4. Len(Left(current)') = n + 1
      BY <1>2, <1>3
    <3> QED
      BY <1>1, <3>1, <3>2, <3>3, <3>4
  <2>2. Len(Left(current)') = Len(Left(current))'
    OBVIOUS
  <2> QED
    BY <2>1, <2>2 DEF Pace
<1>12. \A c \in Conns : c > opened' => toServer'[c] = <<>>
  <2>1. current <= opened
    BY DEF FreshInv, Conns
  <2> QED
    BY <2>1 DEF ReqInv, Types, TypeOK, Conns
<1>13. \A c \in serverClosed' : IsPrefix(handled'[c], written'[c])
  BY <1>0, <1>9 DEF ReqInv, Types, TypeOK
<1> QED
  BY <1>10, <1>11, <1>12, <1>13 DEF ReqInv

LEMMA WriteHeaderReq ==
  ASSUME Types, FreshInv, ReqInv, NEW kind \in Kinds, WriteHeader(kind)
  PROVE  ReqInv'
<1>1. PICK h \in ReqHalf, b \in ReqHalf :
           /\ current \in Conns \ serverClosed /\ unsent = <<>>
           /\ h.part = "header" /\ b.part = "body"
           /\ toServer' = [toServer EXCEPT ![current] = Append(@, h)]
           /\ unsent' = <<b>>
           /\ UNCHANGED <<server, opened, current, written>>
  BY WriteHeaderIs DEF Types
<1>2. Len(Left(current)) % 2 = 0
  <2>1. current \notin serverClosed \cup {None}
    BY <1>1 DEF Conns, None
  <2>2. \A x : <<x>> # <<>>
    OBVIOUS
  <2> QED
    BY <1>1, <2>1, <2>2 DEF ReqInv, Pace
<1>3. /\ h.part # "body" /\ ~(Len(Left(current)) % 2 = 1)
      /\ \E x \in ReqHalf : unsent' = <<x>> /\ x.part = "body"
  BY <1>1, <1>2
<1> QED
  BY <1>1, <1>3, WriteReq

LEMMA WriteBodyReq ==
  ASSUME Types, FreshInv, ReqInv, WriteBody
  PROVE  ReqInv'
<1>1. /\ current \notin serverClosed \cup {None} /\ unsent # <<>>
      /\ toServer' = [toServer EXCEPT ![current] = @ \o unsent]
      /\ written' = [written EXCEPT ![current] =
           IF unsent[1].kind = "ok" THEN Append(@, unsent[1].msg) ELSE @]
      /\ unsent' = <<>>
      /\ UNCHANGED <<server, opened, current>>
  BY DEF WriteBody
<1>2. current \in Conns \ serverClosed
  BY <1>1 DEF Types, TypeOK
<1>3. PICK h \in ReqHalf : unsent = <<h>> /\ h.part = "body" /\ Len(Left(current)) % 2 = 1
  BY <1>1 DEF ReqInv, Pace
<1>4. toServer' = [toServer EXCEPT ![current] = Append(@, h)]
  <2>1. toServer[current] \in Seq(ReqHalf)
    BY <1>2 DEF Types, TypeOK
  <2>2. toServer[current] \o <<h>> = Append(toServer[current], h)
    BY <2>1
  <2> QED
    BY <1>1, <1>3, <2>2
<1>5. unsent[1] = h
  BY <1>3
<1>6. IF h.kind = "ok" THEN written' = [written EXCEPT ![current] = Append(@, h.msg)]
      ELSE UNCHANGED written
  <2>1. written \in [Conns -> Seq(Reqs)]
    BY DEF Types, TypeOK
  <2> QED
    BY <1>1, <1>2, <1>5, <2>1
<1> QED
  BY <1>1, <1>2, <1>3, <1>4, <1>6, WriteReq

LEMMA ConnectReq ==
  ASSUME Types, WayInv, FreshInv, ReqInv, Connect
  PROVE  ReqInv'
<1>1. /\ opened < MaxConns /\ opened' = opened + 1 /\ current' = opened + 1 /\ unsent' = <<>>
      /\ UNCHANGED <<connection, readBuf, handled, serverClosed, toServer, written>>
  BY DEF Connect
<1>2. /\ opened \in Nat /\ opened + 1 \in Conns /\ connection <= opened
  BY <1>1, ConstantsAssumption DEF WayInv, BacklogInv, Conns
<1>3. \A c \in Conns : Flow(c)' <=> Flow(c)
  BY <1>1 DEF Flow, Left
<1>4. \A c \in Conns : c > opened' => toServer'[c] = <<>>
  BY <1>1, <1>2 DEF ReqInv, Conns
<1>5. Pace'
  <2>1. toServer[opened + 1] = <<>> /\ opened + 1 # connection
    BY <1>2 DEF ReqInv, WayInv, BacklogInv
  <2>2. Left(current)' = <<>> \o <<>>
    BY <1>1, <2>1 DEF Left
  <2>3. Len(<<>> \o <<>>) % 2 = 0
    OBVIOUS
  <2>4. Len(Left(current))' % 2 = 0
    BY <2>2, <2>3
  <2> QED
    BY <1>1, <2>4 DEF Pace
<1> QED
  BY <1>1, <1>3, <1>4, <1>5 DEF ReqInv

LEMMA LeaveReq ==
  ASSUME Types, WayInv, FreshInv, ReqInv, Leave \/ NoticeClose
  PROVE  ReqInv'
<1>1. /\ current' = None
      /\ UNCHANGED <<connection, readBuf, handled, serverClosed, toServer, written, opened>>
  BY DEF Leave, NoticeClose, server, kernel
<1>2. \A c \in Conns : Flow(c)' <=> Flow(c)
  BY <1>1 DEF Flow, Left
<1> QED
  BY <1>1, <1>2 DEF ReqInv

LEMMA AcceptReq ==
  ASSUME Types, WayInv, ReqInv, Accept \/ AcceptFails
  PROVE  ReqInv'
<1>1. Len(backlog) \in Nat /\ backlog \in Seq(Conns)
  BY DEF Types, TypeOK
<1>2. CASE Accept
  <2>1. PICK c \in Conns :
          /\ backlog # <<>> /\ c = Head(backlog) /\ connection' = c /\ readBuf' = <<>>
          /\ serverClosed' = serverClosed \cup ({connection} \ {None})
          /\ UNCHANGED <<handled, toServer, emacs>>
    BY <1>2, AcceptIs DEF Types
  <2>2. c = backlog[1] /\ 1 \in 1 .. Len(backlog)
    BY <1>1, <2>1
  <2>3. c # connection
    BY <2>2 DEF WayInv, BacklogInv
  <2>4. serverClosed' \subseteq Conns
    BY <2>1 DEF Types, TypeOK
  <2> QED
    BY <2>1, <2>3, <2>4, ServerReq
<1>3. CASE AcceptFails
  <2>1. backlog # <<>> /\ UNCHANGED <<handled, toServer, emacs, connection, readBuf>>
        /\ serverClosed' = serverClosed \cup {Head(backlog)}
    BY <1>3 DEF AcceptFails, kernel
  <2>2. Head(backlog) \in Conns /\ serverClosed \subseteq Conns
    BY <1>1, <2>1, HeadTailProperties DEF Types, TypeOK
  <2>3. serverClosed' \subseteq Conns
    BY <2>1, <2>2
  <2> QED
    BY <2>1, <2>3, ServerReq
<1> QED
  BY <1>2, <1>3

LEMMA RecvAllReq ==
  ASSUME Types, WayInv, FreshInv, ReqInv, RecvAll
  PROVE  ReqInv'
<1>1. /\ UNCHANGED emacs
      /\ \/ UNCHANGED <<connection, readBuf, handled, serverClosed, toServer>>
         \/ \E read \in Seq(ReqHalf) :
              /\ connection \in Conns /\ read = readBuf \o toServer[connection]
              /\ toServer' = [toServer EXCEPT ![connection] = <<>>]
              /\ \/ Disconnect /\ UNCHANGED handled
                 \/ /\ readBuf' = Undecoded(read)
                    /\ handled' = [handled EXCEPT ![connection] = @ \o Decoded(read)]
                    /\ UNCHANGED <<connection, serverClosed>>
  BY RecvAllIs DEF Types
<1>2. CASE UNCHANGED <<connection, readBuf, handled, serverClosed, toServer>>
  BY <1>1, <1>2, ServerReq DEF Types, TypeOK
<1>3. ASSUME connection \in Conns, toServer' = [toServer EXCEPT ![connection] = <<>>],
             Disconnect, UNCHANGED handled
      PROVE  ReqInv'
  <2>1. UNCHANGED <<written, current, unsent, opened>>
    BY <1>1 DEF emacs
  <2>2. /\ connection' = None /\ serverClosed' = serverClosed \cup {connection}
        /\ readBuf' = <<>> /\ connection # None
    BY <1>3 DEF Disconnect, Conns, None
  <2>3. \A c \in Conns \ serverClosed' : Left(c)' = Left(c)
    <3> SUFFICES ASSUME NEW c \in Conns \ serverClosed' PROVE Left(c)' = Left(c)
      OBVIOUS
    <3>1. c # connection /\ c # None
      BY <2>2 DEF Conns, None
    <3>2. toServer'[c] = toServer[c]
      BY <1>3, <3>1 DEF Types, TypeOK
    <3> QED
      BY <2>2, <3>1, <3>2 DEF Left
  <2>4. \A c \in Conns : c > opened => toServer'[c] = <<>>
    BY <1>3 DEF ReqInv, Types, TypeOK
  <2>5. serverClosed \subseteq serverClosed' /\ serverClosed' \subseteq Conns
    BY <1>3, <2>2 DEF Types, TypeOK
  <2> QED
    BY <1>3, <2>1, <2>3, <2>4, <2>5, ReqKept
<1> QED
  BY <1>1, <1>2, <1>3, DecodeReq

LEMMA ReqStep ==
  ASSUME Types, WayInv, FreshInv, ReqInv, [Next]_vars
  PROVE  ReqInv'
<1>1. CASE Send
  <2>1. UNCHANGED <<handled, toServer, emacs>>
    BY <1>1 DEF Send
  <2>2. \/ UNCHANGED <<connection, readBuf, serverClosed>>
        \/ connection \in Conns /\ Disconnect
    BY <1>1, SendIs DEF Types
  <2> QED
    BY <2>1, <2>2, ServerReq, DisconnectReq DEF Types, TypeOK
<1>2. CASE Flush
  <2>1. UNCHANGED <<handled, toServer, emacs>>
    BY <1>2 DEF Flush
  <2>2. \/ UNCHANGED <<connection, readBuf, serverClosed>>
        \/ connection \in Conns /\ Disconnect
    BY <1>2, FlushIs DEF Types
  <2> QED
    BY <2>1, <2>2, ServerReq, DisconnectReq DEF Types, TypeOK
<1>3. CASE Read \/ UNCHANGED vars
  <2>1. UNCHANGED <<connection, readBuf, handled, serverClosed, toServer, written, current,
                    unsent, opened>>
    BY <1>3 DEF Read, vars, server, kernel, emacs
  <2>2. \A c \in Conns : Left(c)' = Left(c)
    BY <2>1 DEF Left
  <2> QED
    BY <2>1, <2>2, ReqKept DEF ReqInv, Types, TypeOK
<1> QED
  BY <1>1, <1>2, <1>3, AcceptReq, RecvAllReq, ConnectReq, LeaveReq, WriteHeaderReq, WriteBodyReq
  DEF Next, Compositor, Emacs

LEMMA InitReq == Init => ReqInv
<1> SUFFICES ASSUME Init PROVE ReqInv
  OBVIOUS
<1>1. \A c \in Conns : Left(c) = <<>> \o <<>>
  BY DEF Init, Left, Conns, None
<1>2. <<>> \o <<>> = <<>> /\ Len(<<>>) = 0
  OBVIOUS
<1>3. \A c \in Conns : Left(c) = <<>>
  BY <1>1, <1>2
<1>4. Alternates(<<>>)
  BY <1>2 DEF Alternates
<1>5. \A c \in Conns : Flow(c)
  BY <1>2, <1>3, <1>4, DecodedOfNone DEF Flow, Init
<1> QED
  BY <1>5 DEF Init, ReqInv

----------------------------------------------------------------------------
(* The stream of messages that MessageStream promises: every step of the   *)
(* transport is a step of it, or changes nothing it can see.               *)

\* The ends messages can be on their way to; None stands for the next connection.
Ends == Conns \cup {None}

\* What is in transit at each end, before and after a step.
On(c) == IF c = None THEN pending
         ELSE IF c \in emacsClosed THEN <<>>
         ELSE Bodies(toEmacs[c]) \o (IF c = connection THEN Bodies(writeBuf) ELSE <<>>)

LEMMA TransitIs ==
  /\ Transit = [c \in Ends |-> Transit[c]]
  /\ \A c \in Ends : Transit[c] = On(c)
  /\ Transit' = [c \in Ends |-> Transit'[c]]
  /\ \A c \in Ends : Transit'[c] = On(c)'
<1>1. Transit = [c \in Ends |-> On(c)]
  BY Zenon DEF Transit, Ends, On
<1>2. Transit' = [c \in Ends |-> On(c)']
  BY Zenon DEF Transit, Ends, On
<1>3. /\ Transit = [c \in Ends |-> Transit[c]]
      /\ \A c \in Ends : Transit[c] = On(c)
  BY <1>1
<1>4. /\ Transit' = [c \in Ends |-> Transit'[c]]
      /\ \A c \in Ends : Transit'[c] = On(c)'
  BY <1>2
<1> QED
  BY <1>3, <1>4

LEMMA SameFunction ==
  ASSUME NEW D, NEW f, NEW g, f = [d \in D |-> f[d]], g = [d \in D |-> g[d]],
         \A d \in D : f[d] = g[d]
  PROVE  f = g
OBVIOUS

LEMMA TransitSame ==
  ASSUME \A d \in Ends : On(d)' = On(d)
  PROVE  Transit' = Transit
BY TransitIs, SameFunction

LEMMA TransitAt ==
  ASSUME NEW c \in Ends, NEW x, On(c)' = x, \A d \in Ends : d # c => On(d)' = On(d)
  PROVE  Transit' = [Transit EXCEPT ![c] = x]
<1> DEFINE f == Transit
           g == Transit'
<1>1. f = [d \in Ends |-> f[d]] /\ g = [d \in Ends |-> g[d]] /\ g[c] = x
      /\ \A d \in Ends : d # c => g[d] = f[d]
  BY TransitIs
<1> HIDE DEF f, g
<1>2. g = [f EXCEPT ![c] = x]
  BY <1>1
<1> QED
  BY <1>2 DEF f, g

----------------------------------------------------------------------------

LEMMA PrefixRemains ==
  ASSUME NEW S, NEW a \in Seq(S), NEW b \in Seq(S)
  PROVE  a \in Stream!Remainders(a \o b)
<1> DEFINE t == a \o b
           r == SubSeq(t, 1, Len(a))
<1>1. /\ t \in Seq(S) /\ Len(a) \in Nat /\ Len(a) \in 0 .. Len(t)
      /\ \A i \in 1 .. Len(a) : t[i] = a[i]
  BY Concatenated
<1> HIDE DEF t
<1>2. r \in Seq(S) /\ Len(r) = Len(a) /\ \A i \in 1 .. Len(a) : r[i] = t[i]
  BY <1>1
<1> HIDE DEF r
<1>3. r = a
  BY <1>1, <1>2, SeqEqual
<1> QED
  BY <1>1, <1>3 DEF r, t, Stream!Remainders

LEMMA AllRemains ==
  ASSUME NEW S, NEW a \in Seq(S)
  PROVE  a \in Stream!Remainders(a) /\ <<>> \in Stream!Remainders(a)
<1>1. <<>> \in Seq(S)
  OBVIOUS
<1>2. a \o <<>> = a /\ <<>> \o a = a
  OBVIOUS
<1> QED
  BY <1>1, <1>2, PrefixRemains

LEMMA FlushToTransit ==
  ASSUME TypeOK, NEW c \in Conns, NEW buf \in Seq(Half), FlushTo(c, buf)
  PROVE  /\ Bodies(toEmacs'[c]) \o Bodies(writeBuf') = Bodies(toEmacs[c]) \o Bodies(buf)
         /\ \A d \in Conns : d # c => toEmacs'[d] = toEmacs[d]
<1>1. PICK a \in Seq(Half), b \in Seq(Half) :
        /\ buf = a \o b /\ toEmacs' = [toEmacs EXCEPT ![c] = @ \o a] /\ writeBuf' = b
  BY DEF FlushTo, Split
<1>2. toEmacs[c] \in Seq(Half) /\ toEmacs'[c] = toEmacs[c] \o a
  BY <1>1 DEF TypeOK
<1>3. /\ Bodies(toEmacs[c] \o a) = Bodies(toEmacs[c]) \o Bodies(a)
      /\ Bodies(buf) = Bodies(a) \o Bodies(b)
  BY <1>1, <1>2, BodiesConcat
<1>4. PICK t \in Seq(AllMsgs), x \in Seq(AllMsgs), y \in Seq(AllMsgs) :
        t = Bodies(toEmacs[c]) /\ x = Bodies(a) /\ y = Bodies(b)
  BY <1>2, BodiesType
<1>5. (t \o x) \o y = t \o (x \o y)
  <2>1. Associate(t, x, y)
    BY AllAssociate, Zenon
  <2> QED
    BY <2>1, Zenon DEF Associate
<1>6. \A d \in Conns : d # c => toEmacs'[d] = toEmacs[d]
  BY <1>1 DEF TypeOK
<1> QED
  BY <1>1, <1>2, <1>3, <1>4, <1>5, <1>6

LEMMA BodiesOn ==
  ASSUME TypeOK, NEW c \in Conns
  PROVE  Bodies(toEmacs[c]) \in Seq(AllMsgs) /\ Bodies(writeBuf) \in Seq(AllMsgs)
<1>1. toEmacs[c] \in Seq(Half) /\ writeBuf \in Seq(Half)
  BY DEF TypeOK
<1> QED
  BY <1>1, BodiesType

\* What Cut asks for, end by end.
LEMMA CutIs ==
  ASSUME NEW c \in Conns,
         UNCHANGED <<produced, received>>,
         (serverClosed \cup emacsClosed)' = (serverClosed \cup emacsClosed) \cup {c},
         connection' = connection \/ (c = connection /\ connection' = None),
         On(c)' \in Stream!Remainders(On(c)),
         \A d \in Ends : d # c => On(d)' = On(d)
  PROVE  Stream!Cut(c)
<1> DEFINE rest == On(c)'
<1>1. c \in Ends
  BY DEF Ends
<1>2. rest \in Stream!Remainders(Transit[c])
  BY <1>1, TransitIs
<1>3. Transit' = [Transit EXCEPT ![c] = rest]
  BY <1>1, TransitAt
<1>4. connection' \in IF c = connection THEN {connection, Stream!None} ELSE {connection}
  BY DEF Stream!None, None
<1> HIDE DEF rest
<1> QED
  BY <1>2, <1>3, <1>4, Zenon DEF Stream!Cut

\* What the kernel holds can still be read from a connection that the
\* compositor closes; what was queued is lost.
LEMMA ClosedTransit ==
  ASSUME TypeOK, NEW c \in Conns, c = connection, connection' # c,
         UNCHANGED <<toEmacs, emacsClosed>>
  PROVE  On(c)' \in Stream!Remainders(On(c))
<1>0. c # None
  BY DEF Conns, None
<1>1. PICK a \in Seq(AllMsgs), b \in Seq(AllMsgs) : a = Bodies(toEmacs[c]) /\ b = Bodies(writeBuf)
  BY BodiesOn
<1>2. On(c)' = IF c \in emacsClosed THEN <<>> ELSE a \o <<>>
  BY <1>0, <1>1 DEF On
<1>3. On(c) = IF c \in emacsClosed THEN <<>> ELSE a \o b
  BY <1>0, <1>1 DEF On
<1>4. a \o <<>> = a /\ <<>> \in Seq(AllMsgs)
  OBVIOUS
<1>5. a \in Stream!Remainders(a \o b) /\ <<>> \in Stream!Remainders(<<>>)
  BY <1>4, PrefixRemains, AllRemains
<1> QED
  BY <1>2, <1>3, <1>4, <1>5

LEMMA DisconnectCuts ==
  ASSUME TypeOK, connection \in Conns, Disconnect,
         UNCHANGED <<produced, pending, toEmacs, emacsClosed, received>>
  PROVE  \E c \in Conns : Stream!Cut(c)
<1>1. PICK c \in Conns : c = connection
  OBVIOUS
<1>2. connection' = None /\ serverClosed' = serverClosed \cup {c} /\ c # None
  BY <1>1 DEF Disconnect, Conns, None
<1>3. On(c)' \in Stream!Remainders(On(c))
  BY <1>1, <1>2, ClosedTransit
<1>4. \A d \in Ends : d # c => On(d)' = On(d)
  BY <1>1, <1>2 DEF On
<1>5. (serverClosed \cup emacsClosed)' = (serverClosed \cup emacsClosed) \cup {c}
  BY <1>2
<1> QED
  BY <1>1, <1>2, <1>3, <1>4, <1>5, CutIs

LEMMA OnType ==
  ASSUME TypeOK, NEW c \in Ends
  PROVE  On(c) \in Seq(AllMsgs)
<1>1. CASE c = None
  BY <1>1 DEF On, TypeOK, AllMsgs
<1>2. CASE c \in Conns
  <2>1. PICK a \in Seq(AllMsgs), b \in Seq(AllMsgs) : a = Bodies(toEmacs[c]) /\ b = Bodies(writeBuf)
    BY <1>2, BodiesOn
  <2>2. a \o b \in Seq(AllMsgs) /\ a \o <<>> \in Seq(AllMsgs) /\ <<>> \in Seq(AllMsgs)
    OBVIOUS
  <2>3. c # None
    BY <1>2 DEF Conns, None
  <2> QED
    BY <2>1, <2>2, <2>3 DEF On
<1> QED
  BY <1>1, <1>2 DEF Ends

\* A step that moves nothing at either end.
LEMMA StutterIs ==
  ASSUME UNCHANGED <<produced, connection, received>>,
         (serverClosed \cup emacsClosed)' = serverClosed \cup emacsClosed,
         \A d \in Ends : On(d)' = On(d)
  PROVE  UNCHANGED Stream!vars
<1>1. Transit' = Transit
  BY TransitSame
<1> QED
  BY <1>1 DEF Stream!vars

LEMMA RecvAllStreams ==
  ASSUME Types, RecvAll
  PROVE  [Stream!Next]_Stream!vars
<1>1. /\ UNCHANGED <<produced, pending, toEmacs, emacs>>
      /\ \/ UNCHANGED <<connection, writeBuf, serverClosed>>
         \/ connection \in Conns /\ Disconnect
  BY RecvAllIs DEF Types
<1>2. UNCHANGED <<emacsClosed, received>>
  BY <1>1 DEF emacs
<1>3. CASE UNCHANGED <<connection, writeBuf, serverClosed>>
  <2>1. \A d \in Ends : On(d)' = On(d)
    BY <1>1, <1>2, <1>3 DEF On
  <2> QED
    BY <1>1, <1>2, <1>3, <2>1, StutterIs
<1>4. CASE connection \in Conns /\ Disconnect
  BY <1>1, <1>2, <1>4, DisconnectCuts DEF Types, Stream!Next
<1> QED
  BY <1>1, <1>3, <1>4

LEMMA FlushStreams ==
  ASSUME Types, Flush
  PROVE  [Stream!Next]_Stream!vars
<1>1. /\ UNCHANGED <<produced, pending, emacs>>
      /\ \/ UNCHANGED <<connection, writeBuf, serverClosed, toEmacs>>
         \/ /\ connection \in Conns \ emacsClosed
            /\ FlushTo(connection, writeBuf)
            /\ UNCHANGED <<connection, serverClosed>>
         \/ /\ connection \in Conns
            /\ Disconnect
            /\ UNCHANGED toEmacs
  BY FlushIs DEF Types
<1>2. UNCHANGED <<emacsClosed, received>>
  BY <1>1 DEF emacs
<1>3. CASE UNCHANGED <<connection, writeBuf, serverClosed, toEmacs>>
  <2>1. \A d \in Ends : On(d)' = On(d)
    BY <1>1, <1>2, <1>3 DEF On
  <2> QED
    BY <1>1, <1>2, <1>3, <2>1, StutterIs
<1>4. CASE /\ connection \in Conns \ emacsClosed
           /\ FlushTo(connection, writeBuf)
           /\ UNCHANGED <<connection, serverClosed>>
  <2>1. PICK c \in Conns : c = connection
    BY <1>4
  <2>2. writeBuf \in Seq(Half)
    BY DEF Types, TypeOK
  <2>3. /\ Bodies(toEmacs'[c]) \o Bodies(writeBuf') = Bodies(toEmacs[c]) \o Bodies(writeBuf)
        /\ \A d \in Conns : d # c => toEmacs'[d] = toEmacs[d]
    BY <1>4, <2>1, <2>2, FlushToTransit DEF Types
  <2>4. \A d \in Ends : On(d)' = On(d)
    <3>1. /\ On(c) = Bodies(toEmacs[c]) \o Bodies(writeBuf)
          /\ On(c)' = Bodies(toEmacs'[c]) \o Bodies(writeBuf')
      BY <1>2, <1>4, <2>1 DEF On, Conns, None
    <3>2. \A d \in Ends : d # c => On(d)' = On(d)
      BY <1>1, <1>2, <1>4, <2>1, <2>3 DEF On, Ends
    <3> QED
      BY <2>3, <3>1, <3>2
  <2> QED
    BY <1>1, <1>2, <1>4, <2>4, StutterIs
<1>5. CASE connection \in Conns /\ Disconnect /\ UNCHANGED toEmacs
  BY <1>1, <1>2, <1>5, DisconnectCuts DEF Types, Stream!Next
<1> QED
  BY <1>1, <1>3, <1>4, <1>5

\* A message goes to the end in use, the one that has no connection included.
LEMMA ProduceIs ==
  ASSUME NEW c \in Ends, c = connection, c \notin serverClosed \cup emacsClosed,
         produced' = produced + 1,
         UNCHANGED <<connection, serverClosed, emacsClosed, received>>,
         On(c)' = Append(On(c), produced'),
         \A d \in Ends : d # c => On(d)' = On(d)
  PROVE  Stream!Produce
<1> DEFINE new == On(c)'
<1>1. Transit' = [Transit EXCEPT ![c] = new]
  BY TransitAt
<1>2. new = Append(Transit[c], produced')
  BY TransitIs
<1> HIDE DEF new
<1>3. Transit' = [Transit EXCEPT ![connection] = Append(@, produced')]
  BY <1>1, <1>2
<1> QED
  BY <1>3 DEF Stream!Produce

LEMMA SendStreams ==
  ASSUME Types, WayInv, FreshInv, Send
  PROVE  [Stream!Next]_Stream!vars
<1>0. UNCHANGED <<emacsClosed, received>>
  BY DEF Send, emacs
<1>1. /\ produced' = produced + 1 /\ produced' \in Msgs
      /\ \/ /\ connection = None
            /\ pending' = Append(pending, produced')
            /\ UNCHANGED <<connection, writeBuf, serverClosed, toEmacs>>
         \/ /\ connection \in Conns \ emacsClosed
            /\ FlushTo(connection, writeBuf \o Frames(<<produced'>>))
            /\ UNCHANGED <<connection, pending, serverClosed>>
         \/ /\ connection \in Conns \cap emacsClosed
            /\ Disconnect
            /\ UNCHANGED <<pending, toEmacs>>
  BY SendIs DEF Types
<1>2. CASE /\ connection = None
           /\ pending' = Append(pending, produced')
           /\ UNCHANGED <<connection, writeBuf, serverClosed, toEmacs>>
  <2>1. PICK c \in Ends : c = connection
    BY <1>2 DEF Ends
  <2>2. c \notin serverClosed \cup emacsClosed
    BY <1>2, <2>1 DEF WayInv, BacklogInv, None
  <2>3. On(c)' = Append(On(c), produced') /\ \A d \in Ends : d # c => On(d)' = On(d)
    BY <1>0, <1>2, <2>1 DEF On
  <2>4. Stream!Produce
    BY <1>0, <1>1, <1>2, <2>1, <2>2, <2>3, ProduceIs
  <2> QED
    BY <2>4 DEF Stream!Next
<1>3. CASE /\ connection \in Conns \ emacsClosed
           /\ FlushTo(connection, writeBuf \o Frames(<<produced'>>))
           /\ UNCHANGED <<connection, pending, serverClosed>>
  <2>1. PICK c \in Conns : c = connection
    BY <1>3
  <2>2. PICK f \in Seq(Half) : f = Frames(<<produced'>>) /\ Bodies(f) = <<produced'>>
    BY <1>1, FramesOfOne DEF AllMsgs
  <2>3. PICK w \in Seq(Half) : w = writeBuf
    BY DEF Types, TypeOK
  <2>4. PICK buf \in Seq(Half) : buf = w \o f
    <3>1. w \o f \in Seq(Half)
      OBVIOUS
    <3> QED
      BY <3>1, Zenon
  <2>5. /\ Bodies(toEmacs'[c]) \o Bodies(writeBuf') = Bodies(toEmacs[c]) \o Bodies(buf)
        /\ \A d \in Conns : d # c => toEmacs'[d] = toEmacs[d]
    BY <1>3, <2>1, <2>2, <2>3, <2>4, FlushToTransit DEF Types
  <2>6. Bodies(buf) = Bodies(w) \o <<produced'>>
    BY <2>2, <2>4, BodiesConcat
  <2>7. PICK x \in Seq(AllMsgs), y \in Seq(AllMsgs), m \in AllMsgs :
          x = Bodies(toEmacs[c]) /\ y = Bodies(w) /\ m = produced'
    BY <1>1, <2>3, BodiesOn DEF Types, AllMsgs
  <2>8. x \o (y \o <<m>>) = Append(x \o y, m)
    OBVIOUS
  <2>9. On(c) = x \o y /\ On(c)' = Bodies(toEmacs'[c]) \o Bodies(writeBuf')
    BY <1>0, <1>3, <2>1, <2>3, <2>7 DEF On, Conns, None
  <2>10. On(c)' = Append(On(c), produced')
    BY <2>5, <2>6, <2>7, <2>8, <2>9
  <2>11. \A d \in Ends : d # c => On(d)' = On(d)
    BY <1>0, <1>3, <2>1, <2>5 DEF On, Ends
  <2>12. c \in Ends /\ c \notin serverClosed \cup emacsClosed
    BY <1>3, <2>1 DEF Ends, WayInv, OneWay
  <2>13. Stream!Produce
    BY <1>0, <1>1, <1>3, <2>1, <2>10, <2>11, <2>12, ProduceIs
  <2> QED
    BY <2>13 DEF Stream!Next
<1>4. CASE /\ connection \in Conns \cap emacsClosed
           /\ Disconnect
           /\ UNCHANGED <<pending, toEmacs>>
  <2>1. connection' = None /\ serverClosed' = serverClosed \cup {connection}
    BY <1>4 DEF Disconnect
  <2>2. \A d \in Ends : On(d)' = On(d)
    BY <1>0, <1>4, <2>1 DEF On
  <2>3. Transit' = Transit
    BY <2>2, TransitSame
  <2>4. (serverClosed \cup emacsClosed)' = serverClosed \cup emacsClosed
    BY <1>0, <1>4, <2>1
  <2>5. Stream!ProduceInVain
    BY <1>0, <1>1, <1>4, <2>1, <2>3, <2>4 DEF Stream!ProduceInVain, Stream!None, None
  <2> QED
    BY <2>5 DEF Stream!Next
<1> QED
  BY <1>1, <1>2, <1>3, <1>4

\* What Open asks for, end by end.
LEMMA OpenIs ==
  ASSUME NEW c \in Conns, NEW l \in Ends, l = connection, c # l,
         received[c] = <<>>, On(c) = <<>>, connection' = c,
         UNCHANGED <<produced, received>>,
         (serverClosed \cup emacsClosed)' =
           IF l = None THEN serverClosed \cup emacsClosed ELSE (serverClosed \cup emacsClosed) \cup {l},
         NEW rest, rest \in Stream!Remainders(On(l)),
         l # None => On(l)' = rest,
         On(None)' = <<>>,
         On(c)' = IF c \in serverClosed \cup emacsClosed THEN <<>> ELSE <<Connected>> \o pending,
         \A d \in Ends \ {None, l, c} : On(d)' = On(d)
  PROVE  Stream!Open(c)
<1>1. c # None /\ c \in Ends /\ None \in Ends
  BY DEF Conns, None, Ends
<1>2. Transit[c] = <<>> /\ Transit[None] = pending /\ rest \in Stream!Remainders(Transit[connection])
  BY <1>1, TransitIs DEF On
<1> DEFINE first == IF c \in serverClosed \cup emacsClosed THEN <<>> ELSE <<Connected>> \o pending
           f == Transit
           g == Transit'
<1>3. f = [d \in Ends |-> f[d]] /\ g = [d \in Ends |-> g[d]]
  BY TransitIs
<1>4. /\ g[c] = first /\ g[None] = <<>>
      /\ l # None => g[l] = rest
      /\ \A d \in Ends \ {None, l, c} : g[d] = f[d]
  BY <1>1, TransitIs
<1> HIDE DEF f, g, first
<1>5. g = [f EXCEPT ![l] = rest, ![None] = <<>>, ![c] = first]
  BY <1>1, <1>3, <1>4
<1>6. Transit' = [Transit EXCEPT ![connection] = rest, ![None] = <<>>,
                   ![c] = IF c \in serverClosed \cup emacsClosed THEN <<>> ELSE <<Stream!Greeting>> \o Transit[None]]
  BY <1>2, <1>5 DEF f, g, first, Stream!Greeting, Connected
<1>7. (serverClosed \cup emacsClosed)' =
        IF connection = Stream!None THEN serverClosed \cup emacsClosed
        ELSE (serverClosed \cup emacsClosed) \cup {connection}
  BY DEF Stream!None, None
<1>8. Stream!None = None
  BY DEF Stream!None, None
<1> QED
  BY <1>2, <1>6, <1>7, <1>8, Zenon DEF Stream!Open

LEMMA AcceptStreams ==
  ASSUME Types, WayInv, FreshInv, Accept
  PROVE  [Stream!Next]_Stream!vars
<1> DEFINE first == Frames(<<Connected>> \o pending)
<1>1. PICK c \in Conns :
        /\ backlog # <<>> /\ c = Head(backlog) /\ connection' = c /\ pending' = <<>>
        /\ serverClosed' = serverClosed \cup ({connection} \ {None})
        /\ FlushTo(c, first)
        /\ UNCHANGED <<produced, emacs>>
  BY AcceptIs DEF Types
<1>2. PICK l \in Ends : l = connection
  BY DEF Types, TypeOK, Ends
<1>3. /\ 1 \in 1 .. Len(backlog) /\ c = backlog[1]
  BY <1>1 DEF Types, TypeOK
<1>4. /\ Waiting(c) /\ c # l /\ c \notin serverClosed
  BY <1>2, <1>3 DEF Waiting, WayInv, BacklogInv
<1>5. received[c] = <<>> /\ toEmacs[c] = <<>>
  BY <1>4 DEF FreshInv
<1>6. UNCHANGED <<emacsClosed, received>> /\ c # None
  BY <1>1 DEF emacs, Conns, None
<1>7. On(c) = <<>>
  <2>1. On(c) = IF c \in emacsClosed THEN <<>> ELSE <<>> \o <<>>
    BY <1>2, <1>4, <1>5, <1>6, BodiesOfNone DEF On
  <2> QED
    BY <2>1
<1>8. first \in Seq(Half) /\ Bodies(first) = <<Connected>> \o pending
  BY Greeted DEF Types, TypeOK
<1> HIDE DEF first
<1>9. /\ Bodies(toEmacs'[c]) \o Bodies(writeBuf') = Bodies(toEmacs[c]) \o Bodies(first)
      /\ \A d \in Conns : d # c => toEmacs'[d] = toEmacs[d]
  BY <1>1, <1>8, FlushToTransit DEF Types
<1>10. On(c)' = IF c \in serverClosed \cup emacsClosed THEN <<>> ELSE <<Connected>> \o pending
  <2>1. On(c)' = IF c \in emacsClosed THEN <<>> ELSE Bodies(toEmacs'[c]) \o Bodies(writeBuf')
    BY <1>1, <1>6 DEF On
  <2>2. PICK q \in Seq(AllMsgs) : q = <<Connected>> \o pending
    BY Greeted DEF Types, TypeOK
  <2>3. <<>> \o q = q
    OBVIOUS
  <2> QED
    BY <1>4, <1>5, <1>8, <1>9, <2>1, <2>2, <2>3, BodiesOfNone
<1>11. On(None)' = <<>>
  BY <1>1 DEF On
<1>12. \A d \in Ends \ {None, l, c} : On(d)' = On(d)
  BY <1>1, <1>2, <1>6, <1>9 DEF On, Ends
<1>13. PICK rest : rest \in Stream!Remainders(On(l)) /\ (l # None => On(l)' = rest)
  <2>1. CASE l = None
    <3>1. On(l) \in Stream!Remainders(On(l))
      BY OnType, AllRemains DEF Types
    <3> QED
      BY <2>1, <3>1
  <2>2. CASE l \in Conns
    <3>0. l # None /\ l # connection' /\ toEmacs'[l] = toEmacs[l] /\ emacsClosed' = emacsClosed
      BY <1>1, <1>4, <1>6, <1>9, <2>2 DEF Conns, None
    <3>1. On(l)' = IF l \in emacsClosed THEN <<>> ELSE Bodies(toEmacs[l]) \o <<>>
      BY <3>0 DEF On
    <3>2. On(l) = IF l \in emacsClosed THEN <<>> ELSE Bodies(toEmacs[l]) \o Bodies(writeBuf)
      BY <1>2, <2>2 DEF On, Conns, None
    <3>3. PICK a \in Seq(AllMsgs), b \in Seq(AllMsgs) : a = Bodies(toEmacs[l]) /\ b = Bodies(writeBuf)
      BY <2>2, BodiesOn DEF Types
    <3>4. a \o <<>> = a /\ <<>> \in Seq(AllMsgs)
      OBVIOUS
    <3>5. a \in Stream!Remainders(a \o b) /\ <<>> \in Stream!Remainders(<<>>)
      BY <3>4, PrefixRemains, AllRemains
    <3> QED
      BY <3>1, <3>2, <3>3, <3>4, <3>5
  <2> QED
    BY <2>1, <2>2 DEF Ends
<1>14. (serverClosed \cup emacsClosed)' =
         IF l = None THEN serverClosed \cup emacsClosed ELSE (serverClosed \cup emacsClosed) \cup {l}
  BY <1>1, <1>2, <1>6
<1>15. Stream!Open(c)
  BY <1>1, <1>2, <1>4, <1>5, <1>6, <1>7, <1>10, <1>11, <1>12, <1>13, <1>14, OpenIs
<1> QED
  BY <1>15 DEF Stream!Next

\* A connection that cannot be set up has carried nothing.
LEMMA AcceptFailsStreams ==
  ASSUME Types, WayInv, FreshInv, AcceptFails
  PROVE  [Stream!Next]_Stream!vars
<1>1. /\ backlog # <<>> /\ serverClosed' = serverClosed \cup {Head(backlog)}
      /\ UNCHANGED <<produced, connection, pending, writeBuf, toEmacs, emacsClosed, received>>
  BY DEF AcceptFails, kernel, emacs
<1>2. PICK c \in Conns : c = Head(backlog)
  BY <1>1, HeadTailProperties DEF Types, TypeOK
<1>3. \A d \in Ends : On(d)' = On(d)
  BY <1>1 DEF On
<1>4. On(c)' \in Stream!Remainders(On(c))
  BY <1>3, OnType, AllRemains DEF Types, Ends
<1>5. (serverClosed \cup emacsClosed)' = (serverClosed \cup emacsClosed) \cup {c}
  BY <1>1, <1>2
<1>6. Stream!Cut(c)
  BY <1>1, <1>3, <1>4, <1>5, CutIs
<1> QED
  BY <1>6 DEF Stream!Next

\* Emacs gives its connection up: what it had yet to read is lost.
LEMMA HangupStreams ==
  ASSUME Types, FreshInv, NEW c \in Conns,
         emacsClosed' = emacsClosed \cup {c},
         \A d \in Conns : d # c => toEmacs'[d] = toEmacs[d],
         UNCHANGED <<produced, connection, pending, writeBuf, serverClosed, received>>
  PROVE  [Stream!Next]_Stream!vars
<1>1. On(c)' = <<>> /\ c # None
  BY DEF On, Conns, None
<1>2. On(c)' \in Stream!Remainders(On(c))
  BY <1>1, OnType, AllRemains DEF Types, Ends
<1>3. \A d \in Ends : d # c => On(d)' = On(d)
  BY DEF On, Ends
<1>4. (serverClosed \cup emacsClosed)' = (serverClosed \cup emacsClosed) \cup {c}
  OBVIOUS
<1>5. Stream!Cut(c)
  BY <1>2, <1>3, <1>4, CutIs
<1> QED
  BY <1>5 DEF Stream!Next

LEMMA ConnectStreams ==
  ASSUME Types, FreshInv, Connect
  PROVE  [Stream!Next]_Stream!vars
<1>1. /\ UNCHANGED <<produced, connection, pending, writeBuf, serverClosed, received>>
      /\ IF current = None THEN UNCHANGED <<emacsClosed, toEmacs>> ELSE Hangup(current)
  BY DEF Connect
<1>2. CASE current = None
  <2>1. \A d \in Ends : On(d)' = On(d)
    BY <1>1, <1>2 DEF On
  <2> QED
    BY <1>1, <1>2, <2>1, StutterIs
<1>3. CASE current # None
  <2>1. PICK c \in Conns : c = current
    BY <1>3 DEF Types, TypeOK
  <2>2. emacsClosed' = emacsClosed \cup {c} /\ \A d \in Conns : d # c => toEmacs'[d] = toEmacs[d]
    BY <1>1, <1>3, <2>1 DEF Hangup, Types, TypeOK
  <2> QED
    BY <1>1, <2>2, HangupStreams
<1> QED
  BY <1>2, <1>3

LEMMA LeaveStreams ==
  ASSUME Types, FreshInv, Leave \/ NoticeClose
  PROVE  [Stream!Next]_Stream!vars
<1>1. /\ UNCHANGED <<produced, connection, pending, writeBuf, serverClosed, received>>
      /\ current # None /\ emacsClosed' = emacsClosed \cup {current}
      /\ toEmacs' = [toEmacs EXCEPT ![current] = <<>>] \/ UNCHANGED toEmacs
  BY DEF Leave, NoticeClose, Hangup, server, kernel, Types, TypeOK, Conns, None
<1>2. PICK c \in Conns : c = current
  BY <1>1 DEF Types, TypeOK
<1>3. emacsClosed' = emacsClosed \cup {c} /\ \A d \in Conns : d # c => toEmacs'[d] = toEmacs[d]
  BY <1>1, <1>2 DEF Types, TypeOK
<1> QED
  BY <1>1, <1>3, HangupStreams

\* Emacs takes the first half the kernel holds; a body delivers its message.
LEMMA ReadStreams ==
  ASSUME Types, FreshInv, Read
  PROVE  [Stream!Next]_Stream!vars
<1>1. /\ UNCHANGED <<produced, connection, pending, writeBuf, serverClosed, emacsClosed>>
      /\ current # None /\ toEmacs[current] # <<>>
      /\ toEmacs' = [toEmacs EXCEPT ![current] = Tail(@)]
      /\ received' = IF Head(toEmacs[current]).part = "header" THEN received
                     ELSE [received EXCEPT ![current] = Append(@, Head(toEmacs[current]).msg)]
  BY DEF Read, server
<1>2. PICK c \in Conns : c = current
  BY <1>1 DEF Types, TypeOK
<1>3. PICK q \in Seq(Half) : q = toEmacs[c] /\ q # <<>>
  BY <1>1, <1>2 DEF Types, TypeOK
<1>4. c \notin emacsClosed /\ c # None
  BY <1>2 DEF FreshInv, Conns, None
<1>5. Head(q) \in Half /\ Tail(q) \in Seq(Half)
  BY <1>3, HeadTailProperties
<1>6. PICK h \in Half, t \in Seq(Half) : h = Head(q) /\ t = Tail(q)
  BY <1>5
<1>7. PICK x \in Seq(AllMsgs), y \in Seq(AllMsgs) :
        x = Bodies(t) /\ y = IF c = connection THEN Bodies(writeBuf) ELSE <<>>
  <2>1. Bodies(t) \in Seq(AllMsgs) /\ Bodies(writeBuf) \in Seq(AllMsgs) /\ <<>> \in Seq(AllMsgs)
    BY BodiesType, BodiesOn DEF Types
  <2> QED
    BY <2>1
<1>8. Bodies(q) = IF h.part = "body" THEN <<h.msg>> \o x ELSE x
  BY <1>3, <1>6, <1>7, BodiesHead
<1>9. On(c) = Bodies(q) \o y /\ On(c)' = x \o y
  BY <1>1, <1>2, <1>3, <1>4, <1>6, <1>7 DEF On, Types, TypeOK
<1>10. \A d \in Ends : d # c => On(d)' = On(d)
  BY <1>1, <1>2 DEF On, Ends, Types, TypeOK
<1>11. h.part \in {"header", "body"} /\ h.msg \in AllMsgs
  BY DEF Half, AllMsgs, Parts
<1>12. CASE h.part = "header"
  <2>1. \A d \in Ends : On(d)' = On(d)
    BY <1>8, <1>9, <1>10, <1>12
  <2>2. UNCHANGED received
    BY <1>1, <1>2, <1>3, <1>6, <1>12
  <2> QED
    BY <1>1, <2>1, <2>2, StutterIs
<1>13. CASE h.part = "body"
  <2>1. PICK m \in AllMsgs : m = h.msg
    BY <1>11
  <2>2. /\ (<<m>> \o x) \o y # <<>> /\ Head((<<m>> \o x) \o y) = m /\ Tail((<<m>> \o x) \o y) = x \o y
    <3>1. (<<m>> \o x) \o y = <<m>> \o (x \o y)
      OBVIOUS
    <3>2. PICK z \in Seq(AllMsgs) : z = x \o y
      <4>1. x \o y \in Seq(AllMsgs)
        OBVIOUS
      <4> QED
        BY <4>1, Zenon
    <3>3. /\ <<m>> \o z # <<>> /\ Head(<<m>> \o z) = m /\ Tail(<<m>> \o z) = z
      OBVIOUS
    <3> QED
      BY <3>1, <3>2, <3>3
  <2>3. On(c) = (<<m>> \o x) \o y
    BY <1>8, <1>9, <1>13, <2>1
  <2>4. On(c) # <<>> /\ Head(On(c)) = m /\ On(c)' = Tail(On(c))
    BY <1>9, <2>2, <2>3
  <2> DEFINE new == On(c)'
  <2>5. Transit[c] = On(c) /\ Transit' = [Transit EXCEPT ![c] = new]
    BY <1>10, TransitIs, TransitAt DEF Ends
  <2>6. new = Tail(Transit[c])
    BY <2>4, <2>5
  <2> HIDE DEF new
  <2>7. Transit' = [Transit EXCEPT ![c] = Tail(@)]
    BY <2>5, <2>6
  <2>8. received' = [received EXCEPT ![c] = Append(@, m)]
    BY <1>1, <1>2, <1>3, <1>6, <1>13, <2>1
  <2>9. received' = [received EXCEPT ![c] = Append(@, Head(Transit[c]))]
    BY <2>4, <2>5, <2>8
  <2>10. Stream!Deliver(c)
    BY <1>1, <2>4, <2>5, <2>7, <2>9 DEF Stream!Deliver
  <2> QED
    BY <2>10 DEF Stream!Next
<1> QED
  BY <1>11, <1>12, <1>13

LEMMA StreamStep ==
  ASSUME Types, WayInv, FreshInv, [Next]_vars
  PROVE  [Stream!Next]_Stream!vars
<1>1. CASE (\E kind \in Kinds : WriteHeader(kind)) \/ WriteBody \/ UNCHANGED vars
  <2>1. UNCHANGED <<produced, connection, pending, writeBuf, serverClosed, toEmacs, emacsClosed, received>>
    BY <1>1 DEF WriteHeader, WriteBody, vars, server, kernel, emacs
  <2>2. \A d \in Ends : On(d)' = On(d)
    BY <2>1 DEF On
  <2> QED
    BY <2>1, <2>2, StutterIs
<1> QED
  BY <1>1, AcceptStreams, AcceptFailsStreams, SendStreams, RecvAllStreams, FlushStreams,
     ConnectStreams, LeaveStreams, ReadStreams
  DEF Next, Compositor, Emacs

LEMMA StreamInit == Init => Stream!Init
<1> SUFFICES ASSUME Init PROVE Stream!Init
  OBVIOUS
<1>1. \A d \in Ends : On(d) = <<>>
  <2>1. <<>> \o <<>> = <<>>
    OBVIOUS
  <2> QED
    BY <2>1, BodiesOfNone DEF Init, On, Ends
<1>2. \A d \in Ends : Transit[d] = <<>>
  BY <1>1, TransitIs
<1>3. Transit = [d \in Ends |-> <<>>]
  BY <1>2, TransitIs
<1>4. Ends = Conns \cup {Stream!None}
  BY DEF Ends, Stream!None, None
<1> QED
  BY <1>3, <1>4 DEF Init, Stream!Init, Stream!None, None

----------------------------------------------------------------------------
(* The invariant of the transport, and what follows from it.               *)

\* The inductive invariant of the transport.
Inv == Types /\ WayInv /\ FreshInv /\ NothingLost /\ ReqInv

LEMMA InitInv == Init => Inv
BY InitTypes, InitWay, InitFresh, InitNothingLost, InitReq DEF Inv

LEMMA InvStep ==
  ASSUME Inv, [Next]_vars
  PROVE  Inv'
BY TypesStep, WayStep, FreshStep, NothingLostStep, ReqStep DEF Inv

\* It holds throughout.
LEMMA Invariant == Spec => []Inv
<1>1. Inv /\ [Next]_vars => Inv'
  BY InvStep
<1> QED
  BY <1>1, InitInv, PTL DEF Spec

\* The buffers hold halves of frames, of messages produced and requests asked
\* (IpcConn and what try_flush and try_recv leave in it).
THEOREM TypeCorrect == Spec => []TypeOK
<1>1. Inv => TypeOK
  BY DEF Inv, Types
<1> QED
  BY <1>1, Invariant, PTL

\* A message goes to the connection in use, or is held if there is none
\* (IpcServer::send, accept and their early returns): messages are held back
\* only without a connection, what is queued belongs to the one in use, and
\* that one has never been closed.
THEOREM OneWayCorrect == Spec => []OneWay
<1>1. Inv => OneWay
  BY DEF Inv, WayInv
<1> QED
  BY <1>1, Invariant, PTL

\* On a connection both ends hold, received, held by the kernel and queued add
\* up to the greeting and every message since a first one, whatever the short
\* writes (IpcServer::accept, send, flush and IpcConn::try_flush).
THEOREM NothingLostOnTheWayCorrect == Spec => []NothingLostOnTheWay
<1>1. Inv => NothingLostOnTheWay
  BY NothingLostIs DEF Inv, Types
<1> QED
  BY <1>1, Invariant, PTL

\* What recv_all dispatches from a connection is a prefix of the requests that
\* parse which Emacs completed on it, whatever it reads at a time (recv_all,
\* try_recv, parse_incoming).
THEOREM RequestsInOrderCorrect == Spec => []RequestsInOrder
<1>1. ASSUME Inv, NEW c \in Conns
      PROVE  IsPrefix(handled[c], written[c])
  <2>1. TypeOK
    BY <1>1 DEF Inv, Types
  <2> QED
    BY <1>1, <2>1, FlowPrefix DEF Inv, ReqInv
<1>2. Inv => RequestsInOrder
  BY <1>1 DEF RequestsInOrder
<1> QED
  BY <1>2, Invariant, PTL

\* The transport, with its listener, buffers and partial writes, implements the
\* stream of messages of MessageStream: a queue for each connection and one for
\* the next, of which only a connection that is cut loses anything.
THEOREM StreamCorrect == Spec => StreamSpec
<1>1. Inv /\ [Next]_vars => [Stream!Next]_Stream!vars
  BY StreamStep DEF Inv
<1> QED
  BY <1>1, StreamInit, Invariant, PTL DEF Spec, StreamSpec, Stream!Spec
=============================================================================
