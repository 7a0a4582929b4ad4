-------------------------- MODULE Agreement_proofs --------------------------
(***************************************************************************)
(* The seat and the host agree on the selection, for any number of copies   *)
(* and of requests and events on their way.  Neither property is inductive: *)
(* that the two agree at rest is the end of a story told by three queues.  *)
(* Over data-control, the invariant says what each of them may hold, and in *)
(* which order:                                                            *)
(*   - a selection of ours, set or asked for, excludes news of another one  *)
(*     (OneWay), because nothing has crossed;                               *)
(*   - the counter covers the echoes still to come (Enough), so that every   *)
(*     one of them is swallowed; as long as no clear of nothing was left     *)
(*     without an echo it is their number (Counted), so it is 0 when news    *)
(*     comes, and news is not swallowed;                                    *)
(*   - the end of our source comes before the news of what replaced it     *)
(*     (LastSource, Order), so that it does not take the origin back;       *)
(*   - then the last news is of the host's selection (LastNews), and the    *)
(*     seat has what was asked for last, or the host's (Follows).           *)
(* Over X11, the origin follows the seat since no source is ever cancelled. *)
(* The queues are described by sets of elements (Absent, NoneAfter, LastIs, *)
(* Count), which every step changes at an end, by one element or two.      *)
(***************************************************************************)
EXTENDS HostClipboard_proofs, Selection_proofs

-----------------------------------------------------------------------------
(* What a queue holds of a set of elements                                 *)

\* What a queue holds of a set of elements: none; none of B after one of A; the
\* last one is of copy s; how many.
Absent(q, A) == \A i \in 1 .. Len(q) : q[i] \notin A
NoneAfter(q, A, B) == \A i, j \in 1 .. Len(q) : i < j /\ q[i] \in A => q[j] \notin B
LastIs(q, A, s) ==
  \A i \in 1 .. Len(q) :
    q[i] \in A /\ (\A j \in 1 .. Len(q) : i < j => q[j] \notin A) => q[i].sel = s
Count(q, A) == Len(Selected(q, A))

LEMMA AppendedAt ==
  ASSUME NEW S, NEW q \in Seq(S), NEW x \in S
  PROVE  /\ Len(q) \in Nat /\ Len(Append(q, x)) = Len(q) + 1
         /\ Append(q, x)[Len(q) + 1] = x
         /\ \A i \in 1 .. Len(q) : Append(q, x)[i] = q[i]
OBVIOUS

\* An element is added at the end.
LEMMA AppendFacts ==
  ASSUME NEW S, NEW q \in Seq(S), NEW x \in S
  PROVE  /\ \A A : Absent(Append(q, x), A) <=> Absent(q, A) /\ x \notin A
         /\ \A A, B : NoneAfter(Append(q, x), A, B) <=> NoneAfter(q, A, B) /\ (x \notin B \/ Absent(q, A))
         /\ \A A, s : LastIs(Append(q, x), A, s) <=> IF x \in A THEN x.sel = s ELSE LastIs(q, A, s)
         /\ \A A : Count(Append(q, x), A) = Count(q, A) + (IF x \in A THEN 1 ELSE 0)
         /\ \A A : Count(q, A) \in Nat
<1> DEFINE n == Len(q)
           r == Append(q, x)
<1>1. n \in Nat /\ Len(r) = n + 1 /\ r[n + 1] = x /\ \A i \in 1 .. n : r[i] = q[i]
  BY AppendedAt
<1>2. 1 .. (n + 1) = (1 .. n) \cup {n + 1} /\ \A i \in 1 .. n : i < n + 1 /\ ~(n + 1 < i)
  BY <1>1
<1>c. ASSUME NEW A
      PROVE  Count(q, A) \in Nat /\ Count(r, A) = Count(q, A) + (IF x \in A THEN 1 ELSE 0)
  <2>1. PICK f \in Seq(S) : f = Selected(q, A)
    BY SelectedInSeq
  <2>2. Selected(r, A) = IF x \in A THEN Append(f, x) ELSE f
    BY <2>1, SelectedAppend
  <2>3. Len(f) \in Nat /\ Len(Append(f, x)) = Len(f) + 1
    BY AppendedAt
  <2> QED
    BY <2>1, <2>2, <2>3 DEF Count
<1> HIDE DEF n, r
<1>3. ASSUME NEW A PROVE Absent(r, A) <=> (\A i \in 1 .. n : q[i] \notin A) /\ x \notin A
  BY <1>1, <1>2 DEF Absent
<1>4. ASSUME NEW A, NEW B
      PROVE  NoneAfter(r, A, B) <=> /\ \A i, j \in 1 .. n : i < j /\ q[i] \in A => q[j] \notin B
                                    /\ x \notin B \/ \A i \in 1 .. n : q[i] \notin A
  <2>1. NoneAfter(r, A, B) <=> \A i, j \in (1 .. n) \cup {n + 1} : i < j /\ r[i] \in A => r[j] \notin B
    BY <1>1, <1>2 DEF NoneAfter
  <2>2. ~(n + 1 < n + 1)
    BY <1>1
  <2> QED
    BY <1>1, <1>2, <2>1, <2>2
<1>5. ASSUME NEW A, NEW s
      PROVE  LastIs(r, A, s) <=>
               IF x \in A THEN x.sel = s
               ELSE \A i \in 1 .. n : q[i] \in A /\ (\A j \in 1 .. n : i < j => q[j] \notin A) => q[i].sel = s
  <2>1. LastIs(r, A, s) <=> \A i \in (1 .. n) \cup {n + 1} :
          r[i] \in A /\ (\A j \in (1 .. n) \cup {n + 1} : i < j => r[j] \notin A) => r[i].sel = s
    BY <1>1, <1>2 DEF LastIs
  <2>2. ~(n + 1 < n + 1)
    BY <1>1
  <2> QED
    BY <1>1, <1>2, <2>1, <2>2
<1> QED
  BY <1>3, <1>4, <1>5, <1>c DEF n, r, Absent, NoneAfter, LastIs

LEMMA TailAt ==
  ASSUME NEW S, NEW q \in Seq(S), q # <<>>
  PROVE  /\ Head(q) \in S /\ Head(q) = q[1]
         /\ Tail(q) \in Seq(S) /\ Len(q) = Len(Tail(q)) + 1 /\ Len(Tail(q)) \in Nat
         /\ \A i \in 1 .. Len(Tail(q)) : Tail(q)[i] = q[i + 1]
BY HeadTailProperties

\* The first element is taken.
LEMMA TailFacts ==
  ASSUME NEW S, NEW q \in Seq(S), q # <<>>
  PROVE  /\ \A A : Absent(q, A) <=> Absent(Tail(q), A) /\ Head(q) \notin A
         /\ \A A, B : NoneAfter(q, A, B) <=>
              NoneAfter(Tail(q), A, B) /\ (Head(q) \notin A \/ Absent(Tail(q), B))
         /\ \A A, s : LastIs(q, A, s) <=>
              LastIs(Tail(q), A, s) /\ (Head(q) \in A /\ Absent(Tail(q), A) => Head(q).sel = s)
         /\ \A A : Count(q, A) = Count(Tail(q), A) + (IF Head(q) \in A THEN 1 ELSE 0)
         /\ \A A : Count(Tail(q), A) \in Nat
<1> DEFINE h == Head(q)
           t == Tail(q)
           n == Len(t)
<1>1. /\ h \in S /\ h = q[1] /\ t \in Seq(S) /\ Len(q) = n + 1 /\ n \in Nat
      /\ \A i \in 1 .. n : t[i] = q[i + 1]
  BY TailAt
<1>2. /\ \A i \in 1 .. n : i + 1 \in 1 .. (n + 1) /\ q[i + 1] = t[i] /\ 1 < i + 1
      /\ \A i \in 1 .. (n + 1) : i # 1 => i - 1 \in 1 .. n /\ q[i] = t[i - 1]
      /\ 1 \in 1 .. (n + 1) /\ q[1] = h
  <2>1. ASSUME NEW i \in 1 .. (n + 1), i # 1 PROVE i - 1 \in 1 .. n /\ q[i] = t[i - 1]
    <3>1. i - 1 \in 1 .. n /\ (i - 1) + 1 = i
      BY <1>1, <2>1
    <3> QED
      BY <1>1, <3>1
  <2> QED
    BY <1>1, <2>1
<1>c. ASSUME NEW A
      PROVE  Count(t, A) \in Nat /\ Count(q, A) = Count(t, A) + (IF h \in A THEN 1 ELSE 0)
  <2>1. PICK f \in Seq(S) : f = Selected(t, A)
    BY <1>1, SelectedInSeq
  <2>2. Selected(q, A) = IF h \in A THEN <<h>> \o f ELSE f
    BY <2>1, SelectedHead
  <2>3. Len(f) \in Nat /\ Len(<<h>> \o f) = Len(f) + 1
    BY <1>1
  <2> QED
    BY <2>1, <2>2, <2>3 DEF Count
<1> HIDE DEF h, t, n
<1>3. ASSUME NEW A PROVE Absent(q, A) <=> (\A i \in 1 .. n : t[i] \notin A) /\ h \notin A
  <2>1. ASSUME Absent(q, A) PROVE (\A i \in 1 .. n : t[i] \notin A) /\ h \notin A
    BY <1>1, <1>2, <2>1 DEF Absent
  <2>2. ASSUME \A i \in 1 .. n : t[i] \notin A, h \notin A PROVE Absent(q, A)
    BY <1>1, <1>2, <2>2 DEF Absent
  <2> QED
    BY <2>1, <2>2
<1>4. ASSUME NEW A, NEW B
      PROVE  NoneAfter(q, A, B) <=> /\ \A i, j \in 1 .. n : i < j /\ t[i] \in A => t[j] \notin B
                                    /\ h \notin A \/ \A i \in 1 .. n : t[i] \notin B
  <2>1. ASSUME NoneAfter(q, A, B), NEW i \in 1 .. n, NEW j \in 1 .. n, i < j, t[i] \in A
        PROVE  t[j] \notin B
    <3>1. i + 1 < j + 1
      BY <1>1, <2>1
    <3> QED
      BY <1>1, <1>2, <2>1, <3>1 DEF NoneAfter
  <2>2. ASSUME NoneAfter(q, A, B), h \in A, NEW i \in 1 .. n PROVE t[i] \notin B
    BY <1>1, <1>2, <2>2 DEF NoneAfter
  <2>3. ASSUME \A i, j \in 1 .. n : i < j /\ t[i] \in A => t[j] \notin B,
               h \notin A \/ \A i \in 1 .. n : t[i] \notin B,
               NEW i \in 1 .. (n + 1), NEW j \in 1 .. (n + 1), i < j, q[i] \in A
        PROVE  q[j] \notin B
    <3>1. j # 1 /\ (i # 1 => i - 1 < j - 1)
      BY <1>1, <2>3
    <3>2. j - 1 \in 1 .. n /\ q[j] = t[j - 1] /\ (i # 1 => i - 1 \in 1 .. n /\ q[i] = t[i - 1])
      BY <1>2, <3>1
    <3> QED
      BY <1>2, <2>3, <3>1, <3>2
  <2> QED
    BY <1>1, <2>1, <2>2, <2>3 DEF NoneAfter
<1>5. ASSUME NEW A, NEW s
      PROVE  LastIs(q, A, s) <=>
               /\ \A i \in 1 .. n : t[i] \in A /\ (\A j \in 1 .. n : i < j => t[j] \notin A) => t[i].sel = s
               /\ h \in A /\ (\A i \in 1 .. n : t[i] \notin A) => h.sel = s
  <2>1. ASSUME LastIs(q, A, s), NEW i \in 1 .. n, t[i] \in A, \A j \in 1 .. n : i < j => t[j] \notin A
        PROVE  t[i].sel = s
    <3>1. ASSUME NEW j \in 1 .. (n + 1), i + 1 < j PROVE q[j] \notin A
      <4>1. j # 1 /\ i < j - 1
        BY <1>1, <3>1
      <4> QED
        BY <1>2, <2>1, <3>1, <4>1
    <3> QED
      BY <1>1, <1>2, <2>1, <3>1 DEF LastIs
  <2>2. ASSUME LastIs(q, A, s), h \in A, \A i \in 1 .. n : t[i] \notin A
        PROVE  h.sel = s
    <3>1. ASSUME NEW j \in 1 .. (n + 1), 1 < j PROVE q[j] \notin A
      BY <1>1, <1>2, <2>2, <3>1
    <3> QED
      BY <1>1, <1>2, <2>2, <3>1 DEF LastIs
  <2>3. ASSUME \A i \in 1 .. n : t[i] \in A /\ (\A j \in 1 .. n : i < j => t[j] \notin A) => t[i].sel = s,
               h \in A /\ (\A i \in 1 .. n : t[i] \notin A) => h.sel = s,
               NEW i \in 1 .. (n + 1), q[i] \in A, \A j \in 1 .. (n + 1) : i < j => q[j] \notin A
        PROVE  q[i].sel = s
    <3>1. CASE i = 1
      BY <1>1, <1>2, <2>3, <3>1
    <3>2. CASE i # 1
      <4>1. i - 1 \in 1 .. n /\ q[i] = t[i - 1]
        BY <1>2, <3>2
      <4>2. ASSUME NEW j \in 1 .. n, i - 1 < j PROVE t[j] \notin A
        <5>1. i < j + 1
          BY <1>1, <4>2
        <5> QED
          BY <1>2, <2>3, <5>1
      <4> QED
        BY <2>3, <4>1, <4>2
    <3> QED
      BY <3>1, <3>2
  <2> QED
    BY <1>1, <2>1, <2>2, <2>3 DEF LastIs
<1> QED
  BY <1>3, <1>4, <1>5, <1>c DEF h, t, n, Absent, NoneAfter, LastIs

LEMMA CountNone ==
  ASSUME NEW S, NEW q \in Seq(S), NEW A, Absent(q, A)
  PROVE  Count(q, A) = 0
<1>1. PICK f \in Seq(S \cap A) : f = Selected(q, A)
  BY SelectedType
<1>2. InOrder(q, f)
  BY <1>1, SelectedInOrder
<1>3. Len(f) \in Nat /\ DOMAIN f = 1 .. Len(f) /\ DOMAIN q = 1 .. Len(q)
  OBVIOUS
<1>4. ASSUME 1 \in DOMAIN f PROVE FALSE
  <2>1. PICK k \in DOMAIN q : q[k] = f[1]
    BY <1>2, <1>4 DEF InOrder
  <2> QED
    BY <1>3, <1>4, <2>1 DEF Absent
<1> QED
  BY <1>1, <1>3, <1>4 DEF Count

LEMMA CountIsNatural ==
  ASSUME NEW S, NEW q \in Seq(S), NEW A PROVE Count(q, A) \in Nat
<1>1. Selected(q, A) \in Seq(S)
  BY SelectedInSeq
<1> QED
  BY <1>1 DEF Count

LEMMA AbsentFacts ==
  ASSUME NEW q
  PROVE  /\ \A A, B : Absent(q, A) /\ B \subseteq A => Absent(q, B)
         /\ \A A, B, C : NoneAfter(q, A, B) /\ C \subseteq B => NoneAfter(q, A, C)
         /\ \A A, B : Absent(q, A) => NoneAfter(q, A, B)
         /\ \A A, s : Absent(q, A) => LastIs(q, A, s)
         /\ Absent(q, {})
BY DEF Absent, NoneAfter, LastIs

\* r holds the same elements of K as q, in the same order, as far as the
\* operators above can tell.
Alike(q, r, K) ==
  /\ \A A \in SUBSET K : Absent(r, A) <=> Absent(q, A)
  /\ \A A, B \in SUBSET K : NoneAfter(r, A, B) <=> NoneAfter(q, A, B)
  /\ \A A \in SUBSET K : \A s : LastIs(r, A, s) <=> LastIs(q, A, s)
  /\ \A A \in SUBSET K : Count(r, A) = Count(q, A)

LEMMA AlikeItself == \A q, K : Alike(q, q, K)
BY DEF Alike

LEMMA AlikeAppend ==
  ASSUME NEW S, NEW q \in Seq(S), NEW x \in S, NEW K, x \notin K
  PROVE  Alike(q, Append(q, x), K)
<1> DEFINE r == Append(q, x)
<1>1. /\ \A A : Absent(r, A) <=> Absent(q, A) /\ x \notin A
      /\ \A A, B : NoneAfter(r, A, B) <=> NoneAfter(q, A, B) /\ (x \notin B \/ Absent(q, A))
      /\ \A A, s : LastIs(r, A, s) <=> IF x \in A THEN x.sel = s ELSE LastIs(q, A, s)
      /\ \A A : Count(r, A) = Count(q, A) + (IF x \in A THEN 1 ELSE 0)
      /\ \A A : Count(q, A) \in Nat
  BY AppendFacts
<1>2. \A A \in SUBSET K : x \notin A
  OBVIOUS
<1> HIDE DEF r
<1>3. \A A \in SUBSET K : Count(r, A) = Count(q, A)
  BY <1>1, <1>2
<1>4. \A A \in SUBSET K : (Absent(r, A) <=> Absent(q, A)) /\ \A s : LastIs(r, A, s) <=> LastIs(q, A, s)
  BY <1>1, <1>2
<1>5. \A A, B \in SUBSET K : NoneAfter(r, A, B) <=> NoneAfter(q, A, B)
  BY <1>1, <1>2
<1> QED
  BY <1>3, <1>4, <1>5 DEF Alike, r

LEMMA AlikeTail ==
  ASSUME NEW S, NEW q \in Seq(S), q # <<>>, NEW K, Head(q) \notin K
  PROVE  Alike(q, Tail(q), K)
<1> DEFINE h == Head(q)
           t == Tail(q)
<1>1. /\ \A A : Absent(q, A) <=> Absent(t, A) /\ h \notin A
      /\ \A A, B : NoneAfter(q, A, B) <=> NoneAfter(t, A, B) /\ (h \notin A \/ Absent(t, B))
      /\ \A A, s : LastIs(q, A, s) <=> LastIs(t, A, s) /\ (h \in A /\ Absent(t, A) => h.sel = s)
      /\ \A A : Count(q, A) = Count(t, A) + (IF h \in A THEN 1 ELSE 0)
      /\ \A A : Count(t, A) \in Nat
  BY TailFacts
<1>2. \A A \in SUBSET K : h \notin A
  OBVIOUS
<1> HIDE DEF h, t
<1>3. \A A \in SUBSET K : Count(t, A) = Count(q, A)
  BY <1>1, <1>2
<1>4. \A A \in SUBSET K : (Absent(t, A) <=> Absent(q, A)) /\ \A s : LastIs(t, A, s) <=> LastIs(q, A, s)
  BY <1>1, <1>2
<1>5. \A A, B \in SUBSET K : NoneAfter(t, A, B) <=> NoneAfter(q, A, B)
  BY <1>1, <1>2
<1> QED
  BY <1>3, <1>4, <1>5 DEF Alike, t

-----------------------------------------------------------------------------
(* What is on its way                                                      *)

SetsOf(C) == [type : {"set"}, sel : C]
Sets == SetsOf(ClientCopies \cup {None})
Echoes == [type : {"selection"}, sel : Copies \cup {None}, ours : {TRUE}]
News == [type : {"selection"}, sel : Copies \cup {None}, ours : {FALSE}]
Gone(C) == [type : {"cancelled"}, sel : C]
Changes == [type : {"changed"}, sel : Copies \cup {None}]
Losses == [type : {"sourceCancelled"}]

Telling == Echoes \cup News \cup Gone(Copies)

LEMMA RequestSets ==
  ASSUME NEW r \in Requests
  PROVE  /\ r \in Sets <=> r.type = "set"
         /\ \A C \in SUBSET ClientCopies : r \in SetsOf(C) <=> r.type = "set" /\ r.sel \in C
BY DEF Requests, SetsOf, Sets

LEMMA EventSets ==
  ASSUME NEW e \in HostEvents
  PROVE  /\ e.type \notin {"selection", "cancelled"} => e \notin Telling
         /\ e \in Echoes <=> e.type = "selection" /\ e.ours
         /\ e \in News <=> e.type = "selection" /\ ~e.ours
         /\ \A C \in SUBSET Copies : e \in Gone(C) <=> e.type = "cancelled" /\ e.sel \in C
BY DEF HostEvents, Telling, Echoes, News, Gone

LEMMA BridgeSets ==
  ASSUME NEW x \in BridgeEvents
  PROVE  /\ x \in Changes <=> x.type = "changed"
         /\ x \in Losses <=> x.type = "sourceCancelled"
BY DEF BridgeEvents, Changes, Losses

LEMMA SubsetFacts ==
  /\ Sets \subseteq Sets /\ \A C \in SUBSET ClientCopies : SetsOf(C) \subseteq Sets
  /\ {Echoes, News} \subseteq SUBSET Telling
  /\ \A C \in SUBSET Copies : Gone(C) \subseteq Telling /\ Echoes \cup Gone(C) \subseteq Telling
  /\ {Changes, Losses} \subseteq SUBSET (Changes \cup Losses)
  /\ SetsOf({}) = {} /\ Gone({}) = {}
  /\ \A C, D : C \subseteq D => SetsOf(C) \subseteq SetsOf(D) /\ Gone(C) \subseteq Gone(D)
BY DEF Sets, SetsOf, Telling, Gone

-----------------------------------------------------------------------------
(* The invariant                                                           *)

\* The copies named by a request, an event or an owner have been made.
Known ==
  /\ {hostOwner, source} \subseteq made \cup {None}
  /\ Absent(toHost, SetsOf(ClientCopies \ made))
  /\ Absent(toEmthin, Gone(Copies \ made))

NoNews == Absent(toEmthin, News) /\ Absent(events, Changes)

\* The selection is ours, or is going to be: there is no news of another one.
OneWay ==
  hostOwner \in ClientCopies \/ ~Absent(toHost, Sets) => NoNews /\ seat.by # "host"

\* The echoes that are still to come; the counter has one of its own for each.
Due == Count(toHost, Sets) + Count(toEmthin, Echoes)
Enough == suppress >= Due

\* The counter is the number of the echoes that are still to come.
Counted == suppress = Due

\* The source is the one of the last request.
LastSource ==
  /\ NoneAfter(toHost, SetsOf({source} \cap ClientCopies), Sets)
  /\ hostOwner \in ClientCopies /\ hostOwner = source => Absent(toHost, Sets)

\* Our source goes before another selection comes.
Order ==
  /\ NoneAfter(toEmthin, News, Echoes \cup Gone({source} \cap Copies))
  /\ ~Absent(toEmthin, Gone({source} \cap Copies)) => Absent(events, Changes)
  /\ NoneAfter(events, Changes, Losses)
  /\ ~Absent(toEmthin, Gone({source} \cap Copies)) \/ ~Absent(events, Losses) => seat.by # "host"

\* The last news is of the host's selection.
LastNews ==
  /\ LastIs(toEmthin, News, hostOwner)
  /\ Absent(toEmthin, News) => LastIs(events, Changes, hostOwner)

\* The seat's selection, if the host's is that of copy s.
View(s) == IF s \in ClientCopies THEN OnClients(s) ELSE IF s = None THEN NoSelection ELSE OnHost(s)

\* The seat is ahead of the host by the requests, and behind by the news.
Follows ==
  ~apart /\ device =>
    /\ ~Absent(toHost, Sets) =>
         \A s \in ClientCopies \cup {None} : LastIs(toHost, Sets, s) => seat = View(s)
    /\ Absent(toHost, Sets) /\ NoNews => seat = View(hostOwner)

Owned == (seat.by = "host" => origin = "Host") /\ (seat.by = "client" => origin = "Wayland")

\* As long as the host has echoed every request.
Echoed == ~unechoed => Counted /\ LastNews /\ Follows

Uncrossed == OneWay /\ Enough /\ LastSource /\ Order /\ Owned /\ Echoed

DataControlInv == backend = "data_control" => Known /\ (~crossed => Uncrossed)
OtherInv == backend \in {"x11", "none"} => Owned /\ Absent(events, Losses)

\* A step that adds and takes nothing the invariant is about.
LEMMA QuietStep ==
  ASSUME DataControlInv, backend = "data_control",
         UNCHANGED <<backend, hostOwner, made, source, suppress, seat, origin, apart, crossed, unechoed>>,
         device' => device,
         Alike(toHost, toHost', Sets), Alike(toEmthin, toEmthin', Telling),
         Alike(events, events', Changes \cup Losses)
  PROVE  DataControlInv'
<1> DEFINE mine == {source} \cap ClientCopies
           gone == {source} \cap Copies
<1>1. /\ Sets \in SUBSET Sets /\ SetsOf(mine) \in SUBSET Sets
      /\ SetsOf(ClientCopies \ made) \in SUBSET Sets
      /\ Echoes \in SUBSET Telling /\ News \in SUBSET Telling
      /\ Gone(gone) \in SUBSET Telling /\ Gone(Copies \ made) \in SUBSET Telling
      /\ Echoes \cup Gone(gone) \in SUBSET Telling
      /\ Changes \in SUBSET (Changes \cup Losses) /\ Losses \in SUBSET (Changes \cup Losses)
  BY SubsetFacts
<1>2. /\ Absent(toHost', Sets) <=> Absent(toHost, Sets)
      /\ Absent(toHost', SetsOf(ClientCopies \ made)) <=> Absent(toHost, SetsOf(ClientCopies \ made))
      /\ NoneAfter(toHost', SetsOf(mine), Sets) <=> NoneAfter(toHost, SetsOf(mine), Sets)
      /\ \A s : LastIs(toHost', Sets, s) <=> LastIs(toHost, Sets, s)
      /\ Count(toHost', Sets) = Count(toHost, Sets)
  BY <1>1 DEF Alike
<1>3. /\ Absent(toEmthin', News) <=> Absent(toEmthin, News)
      /\ Absent(toEmthin', Gone(gone)) <=> Absent(toEmthin, Gone(gone))
      /\ Absent(toEmthin', Gone(Copies \ made)) <=> Absent(toEmthin, Gone(Copies \ made))
      /\ NoneAfter(toEmthin', News, Echoes \cup Gone(gone)) <=>
           NoneAfter(toEmthin, News, Echoes \cup Gone(gone))
      /\ \A s : LastIs(toEmthin', News, s) <=> LastIs(toEmthin, News, s)
      /\ Count(toEmthin', Echoes) = Count(toEmthin, Echoes)
  BY <1>1 DEF Alike
<1>4. /\ Absent(events', Changes) <=> Absent(events, Changes)
      /\ Absent(events', Losses) <=> Absent(events, Losses)
      /\ NoneAfter(events', Changes, Losses) <=> NoneAfter(events, Changes, Losses)
      /\ \A s : LastIs(events', Changes, s) <=> LastIs(events, Changes, s)
  BY <1>1 DEF Alike
<1>5. Known'
  BY <1>2, <1>3 DEF DataControlInv, Known
<1>6. ASSUME ~crossed' PROVE Uncrossed'
  <2>1. Uncrossed
    BY <1>6 DEF DataControlInv
  <2>2. NoNews' <=> NoNews
    BY <1>3, <1>4 DEF NoNews
  <2>3. OneWay' /\ Enough' /\ Owned'
    BY <1>2, <1>3, <2>1, <2>2 DEF Uncrossed, OneWay, Enough, Due, Owned
  <2>4. LastSource' /\ Order'
    BY <1>2, <1>3, <1>4, <2>1 DEF Uncrossed, LastSource, Order
  <2>5. ASSUME ~unechoed PROVE Counted' /\ LastNews' /\ Follows'
    <3>1. Counted /\ LastNews /\ Follows
      BY <2>1, <2>5 DEF Uncrossed, Echoed
    <3>2. Counted' /\ LastNews'
      BY <1>2, <1>3, <1>4, <3>1 DEF Counted, Due, LastNews
    <3>3. Follows'
      BY <1>2, <2>2, <3>1 DEF Follows, View, OnHost, OnClients, NoSelection
    <3> QED
      BY <3>2, <3>3
  <2> QED
    BY <2>3, <2>4, <2>5 DEF Uncrossed, Echoed
<1> QED
  BY <1>5, <1>6 DEF DataControlInv

-----------------------------------------------------------------------------
(* The host                                                                *)

LEMMA PairAppended ==
  ASSUME NEW S, NEW q \in Seq(S), NEW a \in S, NEW b \in S
  PROVE  /\ q \o <<a>> = Append(q, a) /\ q \o <<>> = q
         /\ (q \o <<a>>) \o <<b>> = Append(Append(q, a), b)
         /\ Append(q, a) \in Seq(S)
OBVIOUS

\* What a change of the host's selection adds: the loss of our source, and the
\* echo or the news.
LEMMA AnnouncedFacts ==
  ASSUME Types, backend = "data_control",
         NEW new \in Copies \cup {None}, NEW b \in BOOLEAN, Announced(new, b)
  PROVE  /\ \A C \in SUBSET Copies :
              Absent(toEmthin', Gone(C)) <=>
                Absent(toEmthin, Gone(C)) /\ ~(hostOwner \in ClientCopies \cap C /\ hostOwner # new)
         /\ Absent(toEmthin', News) <=> Absent(toEmthin, News) /\ b
         /\ Count(toEmthin', Echoes) = Count(toEmthin, Echoes) + (IF b THEN 1 ELSE 0)
         /\ Count(toEmthin, Echoes) \in Nat
         /\ \A s : LastIs(toEmthin', News, s) <=> IF b THEN LastIs(toEmthin, News, s) ELSE new = s
         /\ \A C \in SUBSET Copies :
              NoneAfter(toEmthin', News, Echoes \cup Gone(C)) <=>
                /\ NoneAfter(toEmthin, News, Echoes \cup Gone(C))
                /\ b \/ (hostOwner \in ClientCopies \cap C /\ hostOwner # new) => Absent(toEmthin, News)
<1> DEFINE q == toEmthin
           a == Cancelled(hostOwner)
           x == Selection(new, b)
           lost == hostOwner \in ClientCopies /\ hostOwner # new
<1>1. q \in Seq(HostEvents) /\ x \in HostEvents /\ (lost => a \in HostEvents)
  BY EventsConstructed DEF Types, QueuesOK, Copies
<1>2. /\ x \in Echoes <=> b
      /\ x \in News <=> ~b
      /\ \A C \in SUBSET Copies : x \notin Gone(C)
      /\ x.sel = new
  BY <1>1, EventSets DEF Selection
<1>3. lost => a \notin Echoes /\ a \notin News /\ \A C \in SUBSET Copies : a \in Gone(C) <=> hostOwner \in C
  BY <1>1, EventSets DEF Cancelled
<1>4. Focused
  BY DEF Focused
<1>5. toEmthin' = IF lost THEN Append(Append(q, a), x) ELSE Append(q, x)
  <2>1. toEmthin' = (q \o (IF lost THEN <<a>> ELSE <<>>)) \o <<x>>
    BY <1>4 DEF Announced
  <2> HIDE DEF a, x, q
  <2>2. q \o <<>> = q /\ q \o <<x>> = Append(q, x)
    BY <1>1, PairAppended
  <2>3. lost => (q \o <<a>>) \o <<x>> = Append(Append(q, a), x)
    BY <1>1, PairAppended
  <2>4. toEmthin' = (q \o (IF lost THEN <<a>> ELSE <<>>)) \o <<x>>
    BY <2>1 DEF q
  <2> HIDE DEF lost
  <2>5. CASE lost
    <3>1. (IF lost THEN <<a>> ELSE <<>>) = <<a>>
      BY <2>5
    <3> QED
      BY <2>3, <2>4, <2>5, <3>1
  <2>6. CASE ~lost
    <3>1. (IF lost THEN <<a>> ELSE <<>>) = <<>>
      BY <2>6
    <3> QED
      BY <2>2, <2>4, <2>6, <3>1
  <2> QED
    BY <2>5, <2>6
<1>6. CASE lost
  <2>1. Append(q, a) \in Seq(HostEvents)
    BY <1>1, <1>6, PairAppended
  <2> DEFINE r == Append(q, a)
  <2> HIDE DEF a, x
  <2>2. /\ \A A : Absent(r, A) <=> Absent(q, A) /\ a \notin A
        /\ \A A, B : NoneAfter(r, A, B) <=> NoneAfter(q, A, B) /\ (a \notin B \/ Absent(q, A))
        /\ \A A, s : LastIs(r, A, s) <=> IF a \in A THEN a.sel = s ELSE LastIs(q, A, s)
        /\ \A A : Count(r, A) = Count(q, A) + (IF a \in A THEN 1 ELSE 0)
        /\ \A A : Count(q, A) \in Nat
    BY <1>1, <1>6, AppendFacts
  <2>3. /\ \A A : Absent(toEmthin', A) <=> Absent(r, A) /\ x \notin A
        /\ \A A, B : NoneAfter(toEmthin', A, B) <=> NoneAfter(r, A, B) /\ (x \notin B \/ Absent(r, A))
        /\ \A A, s : LastIs(toEmthin', A, s) <=> IF x \in A THEN x.sel = s ELSE LastIs(r, A, s)
        /\ \A A : Count(toEmthin', A) = Count(r, A) + (IF x \in A THEN 1 ELSE 0)
    <3> HIDE DEF r
    <3>1. r \in Seq(HostEvents) /\ toEmthin' = Append(r, x)
      BY <2>1, <1>5, <1>6 DEF r
    <3> QED
      BY <3>1, <1>1, AppendFacts
  <2> HIDE DEF r, q
  <2>4. ASSUME NEW C \in SUBSET Copies
        PROVE  /\ Absent(toEmthin', Gone(C)) <=> Absent(q, Gone(C)) /\ hostOwner \notin C
               /\ NoneAfter(toEmthin', News, Echoes \cup Gone(C)) <=>
                    /\ NoneAfter(q, News, Echoes \cup Gone(C))
                    /\ b \/ hostOwner \in C => Absent(q, News)
    BY <1>2, <1>3, <1>6, <2>2, <2>3
  <2>5. /\ Absent(toEmthin', News) <=> Absent(q, News) /\ b
        /\ Count(toEmthin', Echoes) = Count(q, Echoes) + (IF b THEN 1 ELSE 0)
        /\ Count(q, Echoes) \in Nat
        /\ \A s : LastIs(toEmthin', News, s) <=> IF b THEN LastIs(q, News, s) ELSE new = s
    BY <1>2, <1>3, <1>6, <2>2, <2>3
  <2> QED
    BY <1>6, <2>4, <2>5 DEF q
<1>7. CASE ~lost
  <2> HIDE DEF a, x
  <2>1. /\ \A A : Absent(toEmthin', A) <=> Absent(q, A) /\ x \notin A
        /\ \A A, B : NoneAfter(toEmthin', A, B) <=> NoneAfter(q, A, B) /\ (x \notin B \/ Absent(q, A))
        /\ \A A, s : LastIs(toEmthin', A, s) <=> IF x \in A THEN x.sel = s ELSE LastIs(q, A, s)
        /\ \A A : Count(toEmthin', A) = Count(q, A) + (IF x \in A THEN 1 ELSE 0)
        /\ \A A : Count(q, A) \in Nat
    <3>1. toEmthin' = Append(q, x)
      BY <1>5, <1>7
    <3> QED
      BY <3>1, <1>1, AppendFacts
  <2> HIDE DEF q
  <2> QED
    BY <1>2, <1>7, <2>1 DEF q
<1> QED
  BY <1>6, <1>7

\* The host sets the selection that was asked for first, or leaves a clear of
\* nothing without an echo.
LEMMA HostSetsInv ==
  ASSUME Types, DataControlInv, backend = "data_control", HostSets, UNCHANGED <<xVars, bridgeVars>>
  PROVE  DataControlInv'
<1> DEFINE r == Head(toHost)
           rest == Tail(toHost)
           s == r.sel
           mine == {source} \cap ClientCopies
           gone == {source} \cap Copies
<1>1. r \in Requests /\ r.type = "set" /\ s \in ClientCopies \cup {None} /\ toHost # <<>>
  BY RequestFields, QueueSteps DEF HostSets, Types, QueuesOK
<1>2. /\ \A A : Absent(toHost, A) <=> Absent(rest, A) /\ r \notin A
      /\ \A A, B : NoneAfter(toHost, A, B) <=> NoneAfter(rest, A, B) /\ (r \notin A \/ Absent(rest, B))
      /\ \A A, x : LastIs(toHost, A, x) <=> LastIs(rest, A, x) /\ (r \in A /\ Absent(rest, A) => r.sel = x)
      /\ \A A : Count(toHost, A) = Count(rest, A) + (IF r \in A THEN 1 ELSE 0)
      /\ \A A : Count(rest, A) \in Nat
  BY <1>1, TailFacts DEF Types, QueuesOK
<1>3. r \in Sets /\ (r \in SetsOf(mine) <=> s \in mine) /\ (s \in ClientCopies => s \in made)
  <2>1. r \in SetsOf(ClientCopies \ made) <=> s \in ClientCopies \ made
    BY <1>1, RequestSets
  <2>2. r \notin SetsOf(ClientCopies \ made)
    BY <1>2 DEF DataControlInv, Known
  <2> QED
    BY <1>1, <2>1, <2>2, RequestSets
<1>4. /\ toHost' = rest /\ hostOwner' = s
      /\ UNCHANGED <<backend, made, suppress, events, source, device, seat, origin, apart, crossed>>
      /\ \/ Announced(s, TRUE) /\ UNCHANGED unechoed
         \/ unechoed' = (backend = "data_control") /\ s = hostOwner /\ UNCHANGED toEmthin
  BY DEF HostSets, Announced, Focused, bridgeVars
<1>5. /\ \A C \in SUBSET Copies :
           Absent(toEmthin', Gone(C)) <=>
             Absent(toEmthin, Gone(C)) /\ ~(hostOwner \in ClientCopies \cap C /\ hostOwner # s)
      /\ Absent(toEmthin', News) <=> Absent(toEmthin, News)
      /\ Count(toEmthin', Echoes) \in {Count(toEmthin, Echoes), Count(toEmthin, Echoes) + 1}
      /\ Count(toEmthin, Echoes) \in Nat
      /\ ~unechoed' => ~unechoed /\ Count(toEmthin', Echoes) = Count(toEmthin, Echoes) + 1
  <2>1. CASE Announced(s, TRUE) /\ UNCHANGED unechoed
    BY <1>1, <2>1, AnnouncedFacts DEF Copies
  <2>2. CASE unechoed' = (backend = "data_control") /\ s = hostOwner /\ UNCHANGED toEmthin
    BY <2>2, CountIsNatural DEF Types, QueuesOK
  <2> QED
    BY <1>4, <2>1, <2>2
<1> HIDE DEF r, rest, s
<1>6. Known'
  <2>1. Absent(toEmthin', Gone(Copies \ made))
    <3>1. hostOwner \in ClientCopies => hostOwner \notin Copies \ made
      BY CopiesAssumption DEF DataControlInv, Known
    <3> QED
      BY <1>5, <3>1 DEF DataControlInv, Known
  <2> QED
    BY <1>1, <1>2, <1>3, <1>4, <2>1 DEF DataControlInv, Known
<1>7. ASSUME ~crossed PROVE Uncrossed'
  <2>1. Uncrossed
    BY <1>7 DEF DataControlInv
  <2>2. NoNews /\ seat.by # "host" /\ Absent(toEmthin', News) /\ Absent(events', Changes)
    BY <1>2, <1>3, <1>4, <1>5, <2>1 DEF Uncrossed, OneWay, NoNews
  <2>3. OneWay' /\ Owned'
    BY <1>4, <2>1, <2>2 DEF Uncrossed, OneWay, NoNews, Owned
  <2>4. Enough' /\ (~unechoed' => Counted')
    <3>1. suppress \in Nat /\ Count(rest, Sets) \in Nat /\ Count(toHost, Sets) = Count(rest, Sets) + 1
      BY <1>2, <1>3 DEF Types, TypeOK
    <3>2. Enough'
      BY <1>4, <1>5, <2>1, <3>1 DEF Uncrossed, Enough, Due
    <3>3. ASSUME ~unechoed' PROVE Counted'
      BY <1>4, <1>5, <2>1, <3>1, <3>3 DEF Uncrossed, Echoed, Counted, Due
    <3> QED
      BY <3>2, <3>3
  <2>5. LastSource'
    BY <1>1, <1>2, <1>3, <1>4, <2>1 DEF Uncrossed, LastSource
  <2>6. Order'
    <3>1. NoneAfter(toEmthin', News, Echoes \cup Gone(gone))
      BY <2>2, AbsentFacts
    <3> QED
      BY <1>4, <2>1, <2>2, <3>1 DEF Uncrossed, Order
  <2>7. LastNews'
    BY <2>2, AbsentFacts DEF LastNews
  <2>8. ASSUME ~unechoed' PROVE Follows'
    <3> SUFFICES ASSUME ~apart, device
                 PROVE  /\ ~Absent(rest, Sets) =>
                             \A x \in ClientCopies \cup {None} : LastIs(rest, Sets, x) => seat = View(x)
                        /\ Absent(rest, Sets) => seat = View(s)
      BY <1>4 DEF Follows, View, OnHost, OnClients, NoSelection
    <3>1. \A x \in ClientCopies \cup {None} : LastIs(toHost, Sets, x) => seat = View(x)
      BY <1>2, <1>3, <1>5, <2>1, <2>8 DEF Uncrossed, Echoed, Follows
    <3>2. ASSUME Absent(rest, Sets) PROVE LastIs(toHost, Sets, s)
      <4>1. LastIs(rest, Sets, s)
        BY <3>2, AbsentFacts
      <4> QED
        BY <1>2, <4>1 DEF s
    <3>3. ASSUME ~Absent(rest, Sets), NEW x, LastIs(rest, Sets, x) PROVE LastIs(toHost, Sets, x)
      BY <1>2, <3>3
    <3> QED
      BY <1>1, <3>1, <3>2, <3>3
  <2> QED
    BY <2>3, <2>4, <2>5, <2>6, <2>7, <2>8 DEF Uncrossed, Echoed
<1> QED
  BY <1>4, <1>6, <1>7 DEF DataControlInv

\* An application of the host copies, or quits.
LEMMA HostChangesInv ==
  ASSUME Types, DataControlInv, backend = "data_control", NEW c \in HostCopies \cup {None},
         Announced(c, FALSE), made' = made \cup ({c} \cap HostCopies),
         UNCHANGED <<backend, toHost, events, suppress, source, device, seat, origin, apart, unechoed>>,
         crossed' = (crossed \/ NewsToHost)
  PROVE  DataControlInv'
<1> DEFINE gone == {source} \cap Copies
<1>1. hostOwner' = c /\ c \notin ClientCopies
  BY CopiesAssumption DEF Announced
<1>2. ~crossed' => ~crossed /\ Absent(toHost, Sets)
  <2>1. ASSUME NEW i \in 1 .. Len(toHost), toHost[i] \in Sets PROVE NewsToHost
    <3>1. toHost \in Seq(Requests)
      BY DEF Types, QueuesOK
    <3>2. i \in DOMAIN toHost /\ toHost[i] \in Requests
      BY <3>1
    <3> QED
      BY <2>1, <3>2, RequestSets DEF NewsToHost
  <2> QED
    BY <2>1 DEF Absent
<1>3. /\ \A C \in SUBSET Copies :
           Absent(toEmthin', Gone(C)) <=>
             Absent(toEmthin, Gone(C)) /\ ~(hostOwner \in ClientCopies \cap C /\ hostOwner # c)
      /\ ~Absent(toEmthin', News)
      /\ Count(toEmthin', Echoes) = Count(toEmthin, Echoes)
      /\ \A s : LastIs(toEmthin', News, s) <=> c = s
      /\ \A C \in SUBSET Copies :
           NoneAfter(toEmthin', News, Echoes \cup Gone(C)) <=>
             /\ NoneAfter(toEmthin, News, Echoes \cup Gone(C))
             /\ hostOwner \in ClientCopies \cap C /\ hostOwner # c => Absent(toEmthin, News)
  <2>1. c \in Copies \cup {None} /\ FALSE \in BOOLEAN
    BY DEF Copies
  <2>2. /\ Count(toEmthin', Echoes) = Count(toEmthin, Echoes) + 0
        /\ Count(toEmthin, Echoes) \in Nat
    BY <2>1, AnnouncedFacts
  <2>3. Count(toEmthin', Echoes) = Count(toEmthin, Echoes)
    BY <2>2
  <2> QED
    BY <2>1, <2>3, AnnouncedFacts
<1>4. Known'
  <2>1. /\ Absent(toHost, SetsOf(ClientCopies \ made'))
        /\ Absent(toEmthin, Gone(Copies \ made'))
    <3>1. ClientCopies \ made' \subseteq ClientCopies \ made /\ Copies \ made' \subseteq Copies \ made
      OBVIOUS
    <3>2. /\ SetsOf(ClientCopies \ made') \subseteq SetsOf(ClientCopies \ made)
          /\ Gone(Copies \ made') \subseteq Gone(Copies \ made)
      BY <3>1, SubsetFacts
    <3> QED
      BY <3>2, AbsentFacts DEF DataControlInv, Known
  <2>2. hostOwner \in ClientCopies => hostOwner \in made'
    BY CopiesAssumption DEF DataControlInv, Known
  <2>3. Absent(toEmthin', Gone(Copies \ made'))
    BY <1>3, <2>1, <2>2
  <2> QED
    BY <1>1, <2>1, <2>3 DEF DataControlInv, Known
<1>5. ASSUME ~crossed' PROVE Uncrossed'
  <2>1. Uncrossed /\ Absent(toHost, Sets)
    BY <1>2, <1>5 DEF DataControlInv
  <2>2. OneWay' /\ Enough' /\ (Counted => Counted') /\ Owned' /\ LastSource'
    BY <1>1, <1>3, <2>1 DEF Uncrossed, OneWay, Enough, Counted, Due, Owned, LastSource
  <2>3. hostOwner \in ClientCopies => NoNews /\ seat.by # "host"
    BY <2>1 DEF Uncrossed, OneWay
  <2>4. Order'
    BY <1>3, <2>1, <2>3 DEF Uncrossed, Order, NoNews
  <2>5. LastNews' /\ Follows'
    BY <1>1, <1>3, <2>1 DEF LastNews, Follows, NoNews
  <2> QED
    BY <2>1, <2>2, <2>4, <2>5 DEF Uncrossed, Echoed
<1> QED
  BY <1>4, <1>5 DEF DataControlInv

LEMMA HostStepInv ==
  ASSUME Types, DataControlInv, backend = "data_control",
         \/ HostAnswers \/ HostFeeds \/ HostOwnerGone \/ HostFocus \/ DeviceFinished
         \/ \E h \in HostCopies : HostAppCopy(h)
         \/ \E f \in HostPastes : HostAppPaste(f)
  PROVE  DataControlInv'
<1> USE DEF Types, QueuesOK
<1>1. CASE HostAnswers
  <2>1. CASE HostSets /\ UNCHANGED <<xVars, bridgeVars>>
    BY <2>1, HostSetsInv
  <2>2. CASE HostReceives /\ UNCHANGED <<xVars, bridgeVars>>
    <3> DEFINE r == Head(toHost)
               e == Send(r.sel, r.paste)
    <3>1. r \in Requests /\ r.type = "receive" /\ r.sel \in Copies /\ r.paste \in ClientPastes
      BY <2>2, RequestFields, QueueSteps DEF HostReceives
    <3>2. Alike(toHost, toHost', Sets)
      <4>1. r \notin Sets
        BY <3>1, RequestSets
      <4> QED
        BY <2>2, <4>1, AlikeTail DEF HostReceives
    <3>3. Alike(toEmthin, toEmthin', Telling)
      <4>1. e \in HostEvents /\ e \notin Telling
        <5>1. e \in HostEvents
          BY <3>1, EventsConstructed DEF Pastes
        <5> QED
          BY <5>1, EventSets DEF Send
      <4>2. toEmthin' \in {toEmthin, Append(toEmthin, e)}
        BY <2>2 DEF HostReceives
      <4> HIDE DEF e
      <4>3. Alike(toEmthin, Append(toEmthin, e), Telling)
        BY <4>1, AlikeAppend
      <4> QED
        BY <4>2, <4>3, AlikeItself
    <3>4. Alike(events, events', Changes \cup Losses)
      BY <2>2, AlikeItself DEF HostReceives
    <3>5. UNCHANGED <<backend, hostOwner, made, source, suppress, device, seat, origin, apart, crossed,
                     unechoed>>
      BY <2>2 DEF HostReceives, wlVars, bridgeVars
    <3> HIDE DEF Types, QueuesOK
    <3> QED
      BY <3>2, <3>3, <3>4, <3>5, QuietStep
  <2> QED
    BY <1>1, <2>1, <2>2 DEF HostAnswers
<1>2. CASE HostFeeds \/ HostFocus
  BY <1>2 DEF HostFeeds, HostFocus, HostFocusIn, HostFocusOut
<1>3. CASE HostOwnerGone
  BY <1>3, HostChangesInv, CopiesAssumption DEF HostOwnerGone, HostOwnerQuits, wlVars
<1>4. CASE DeviceFinished
  <2> DEFINE e == [type |-> "finished"]
  <2>1. e \in HostEvents /\ e \notin Telling
    BY EventsConstructed, EventSets
  <2>2. Alike(toEmthin, toEmthin', Telling)
    BY <1>4, <2>1, AlikeAppend DEF DeviceFinished, HostFinishes
  <2>3. Alike(toHost, toHost', Sets) /\ Alike(events, events', Changes \cup Losses)
    BY <1>4, AlikeItself DEF DeviceFinished, HostFinishes
  <2>4. UNCHANGED <<backend, hostOwner, made, source, suppress, device, seat, origin, apart, crossed,
                     unechoed>>
    BY <1>4 DEF DeviceFinished, HostFinishes, wlVars, bridgeVars
  <2> HIDE DEF Types, QueuesOK
  <2> QED
    BY <2>2, <2>3, <2>4, QuietStep
<1>5. ASSUME NEW h \in HostCopies, HostAppCopy(h) PROVE DataControlInv'
  BY <1>5, HostChangesInv DEF HostAppCopy, HostAppCopies, wlVars
<1>6. ASSUME NEW f \in HostPastes, HostAppPaste(f) PROVE DataControlInv'
  <2> DEFINE e == Send(hostOwner, f)
  <2>1. e \in HostEvents /\ e \notin Telling
    <3>1. e \in HostEvents
      BY <1>6, EventsConstructed DEF HostAppPaste, Pastes, Copies
    <3> QED
      BY <3>1, EventSets DEF Send
  <2>2. Alike(toEmthin, toEmthin', Telling)
    <3>1. toEmthin' = Append(toEmthin, e)
      BY <1>6 DEF HostAppPaste, HostAppPastes
    <3> HIDE DEF e
    <3> QED
      BY <2>1, <3>1, AlikeAppend
  <2>3. Alike(toHost, toHost', Sets) /\ Alike(events, events', Changes \cup Losses)
    BY <1>6, AlikeItself DEF HostAppPaste, HostAppPastes
  <2>4. UNCHANGED <<backend, hostOwner, made, source, suppress, device, seat, origin, apart, crossed,
                     unechoed>>
    BY <1>6 DEF HostAppPaste, HostAppPastes, wlVars, bridgeVars
  <2> HIDE DEF Types, QueuesOK
  <2> QED
    BY <2>2, <2>3, <2>4, QuietStep
<1> QED
  BY <1>1, <1>2, <1>3, <1>4, <1>5, <1>6

-----------------------------------------------------------------------------
(* The clients                                                             *)

LEMMA NewsSeen == ASSUME Types, ~NewsFromHost PROVE NoNews
<1>1. toEmthin \in Seq(HostEvents) /\ events \in Seq(BridgeEvents)
  BY DEF Types, QueuesOK
<1>2. ASSUME NEW i \in 1 .. Len(toEmthin) PROVE toEmthin[i] \notin News
  <2>1. i \in DOMAIN toEmthin /\ toEmthin[i] \in HostEvents
    BY <1>1
  <2> QED
    BY <2>1, EventSets DEF NewsFromHost
<1>3. ASSUME NEW i \in 1 .. Len(events) PROVE events[i] \notin Changes
  <2>1. i \in DOMAIN events /\ events[i] \in BridgeEvents
    BY <1>1
  <2> QED
    BY <2>1, BridgeSets DEF NewsFromHost
<1> QED
  BY <1>2, <1>3 DEF NoNews, Absent

\* The host is told of a copy, or of none.
LEMMA ToldInv ==
  ASSUME Types, DataControlInv, backend = "data_control",
         NEW c \in ClientCopies \cup {None}, c \in ClientCopies => c \notin made,
         toHost' = Append(toHost, [type |-> "set", sel |-> c]),
         source' = c, suppress' = suppress + 1, seat' = View(c), made' = made \cup ({c} \cap ClientCopies),
         c # None => origin' = "Wayland", crossed' = (crossed \/ NewsFromHost),
         UNCHANGED <<backend, hostOwner, toEmthin, events, device, unechoed>>
  PROVE  DataControlInv'
<1> DEFINE r == [type |-> "set", sel |-> c]
           mine == {c} \cap ClientCopies
           gone == {c} \cap Copies
<1>1. r \in Requests /\ toHost \in Seq(Requests) /\ r.sel = c
  BY Constructed DEF Types, QueuesOK
<1>2. r \in Sets /\ \A C \in SUBSET ClientCopies : r \in SetsOf(C) <=> c \in C
  BY <1>1, RequestSets
<1> HIDE DEF r
<1>3. /\ \A A : Absent(toHost', A) <=> Absent(toHost, A) /\ r \notin A
      /\ \A A, B : NoneAfter(toHost', A, B) <=> NoneAfter(toHost, A, B) /\ (r \notin B \/ Absent(toHost, A))
      /\ \A A, s : LastIs(toHost', A, s) <=> IF r \in A THEN c = s ELSE LastIs(toHost, A, s)
      /\ \A A : Count(toHost', A) = Count(toHost, A) + (IF r \in A THEN 1 ELSE 0)
      /\ \A A : Count(toHost, A) \in Nat
  <2>1. toHost' = Append(toHost, r)
    BY DEF r
  <2> QED
    BY <1>1, <2>1, AppendFacts
<1>4. mine \subseteq ClientCopies \ made /\ gone \subseteq Copies \ made
  BY CopiesAssumption DEF Copies, DataControlInv, Known, Types, TypeOK
<1>5. Absent(toHost, SetsOf(mine)) /\ Absent(toEmthin, Gone(gone))
  <2>1. SetsOf(mine) \subseteq SetsOf(ClientCopies \ made) /\ Gone(gone) \subseteq Gone(Copies \ made)
    BY <1>4, SubsetFacts
  <2>2. Absent(toHost, SetsOf(ClientCopies \ made)) /\ Absent(toEmthin, Gone(Copies \ made))
    BY DEF DataControlInv, Known
  <2> HIDE DEF mine, gone
  <2> QED
    BY <2>1, <2>2, AbsentFacts
<1>6. Known'
  <2>1. ClientCopies \ made' \subseteq ClientCopies \ made /\ Copies \ made' \subseteq Copies \ made
    OBVIOUS
  <2>2. Absent(toHost, SetsOf(ClientCopies \ made')) /\ Absent(toEmthin, Gone(Copies \ made'))
    <3>1. /\ SetsOf(ClientCopies \ made') \subseteq SetsOf(ClientCopies \ made)
          /\ Gone(Copies \ made') \subseteq Gone(Copies \ made)
      BY <2>1, SubsetFacts
    <3> QED
      BY <3>1, AbsentFacts DEF DataControlInv, Known
  <2>3. Absent(toHost', SetsOf(ClientCopies \ made'))
    <3>1. c \notin ClientCopies \ made'
      OBVIOUS
    <3> QED
      BY <1>2, <1>3, <2>2, <3>1
  <2> QED
    BY <2>2, <2>3 DEF DataControlInv, Known
<1>7. ASSUME ~crossed' PROVE Uncrossed'
  <2>1. Uncrossed /\ NoNews
    BY <1>7, NewsSeen DEF DataControlInv
  <2>2. seat'.by # "host" /\ (seat'.by = "client" => origin' = "Wayland")
    BY CopiesAssumption DEF View, OnClients, OnHost, NoSelection
  <2>3. OneWay' /\ Owned'
    BY <2>1, <2>2 DEF OneWay, Owned, NoNews
  <2>4. Enough' /\ (Counted => Counted')
    <3>1. suppress \in Nat /\ Count(toEmthin, Echoes) \in Nat /\ Count(toHost, Sets) \in Nat
      BY <1>3, CountIsNatural DEF Types, TypeOK, QueuesOK
    <3>2. Count(toHost', Sets) = Count(toHost, Sets) + 1
      BY <1>2, <1>3
    <3>3. Due \in Nat /\ Due' = Due + 1
      BY <3>1, <3>2 DEF Due
    <3> QED
      BY <2>1, <3>1, <3>3 DEF Uncrossed, Enough, Counted
  <2>5. LastSource'
    <3>1. NoneAfter(toHost, SetsOf(mine), Sets)
      BY <1>5, AbsentFacts
    <3>2. NoneAfter(toHost', SetsOf(mine), Sets)
      BY <1>3, <1>5, <3>1
    <3>3. hostOwner \in ClientCopies => hostOwner # c
      BY CopiesAssumption DEF DataControlInv, Known
    <3> QED
      BY <3>2, <3>3 DEF LastSource
  <2>6. Order'
    <3>1. NoneAfter(toEmthin, News, Echoes \cup Gone(gone))
      BY <2>1, AbsentFacts DEF NoNews
    <3> QED
      BY <1>5, <2>1, <2>2, <3>1 DEF Uncrossed, Order
  <2>7. LastNews => LastNews'
    BY <2>1 DEF LastNews
  <2>8. Follows'
    BY <1>2, <1>3 DEF Follows, View, OnClients, OnHost, NoSelection
  <2> QED
    BY <2>1, <2>3, <2>4, <2>5, <2>6, <2>7, <2>8 DEF Uncrossed, Echoed
<1> QED
  BY <1>6, <1>7 DEF DataControlInv

\* The seat's selection changes here and the host is not told.
LEMMA UntoldInv ==
  ASSUME DataControlInv, backend = "data_control",
         UNCHANGED <<backend, hostOwner, toHost, toEmthin, events, suppress, source, unechoed>>,
         made \subseteq made', seat'.by # "host", seat'.by = "client" => origin' = "Wayland",
         apart' \/ ~device', ~crossed' => ~crossed
  PROVE  DataControlInv'
<1>1. Known'
  <2>1. ClientCopies \ made' \subseteq ClientCopies \ made /\ Copies \ made' \subseteq Copies \ made
    OBVIOUS
  <2>2. /\ SetsOf(ClientCopies \ made') \subseteq SetsOf(ClientCopies \ made)
        /\ Gone(Copies \ made') \subseteq Gone(Copies \ made)
    BY <2>1, SubsetFacts
  <2>3. Absent(toHost, SetsOf(ClientCopies \ made')) /\ Absent(toEmthin, Gone(Copies \ made'))
    BY <2>2, AbsentFacts DEF DataControlInv, Known
  <2> QED
    BY <2>3 DEF DataControlInv, Known
<1>2. ASSUME ~crossed' PROVE Uncrossed'
  <2>1. Uncrossed
    BY <1>2 DEF DataControlInv
  <2>2. OneWay' /\ Owned'
    BY <2>1 DEF Uncrossed, OneWay, NoNews, Owned
  <2>3. Enough' /\ LastSource' /\ (Counted => Counted') /\ (LastNews => LastNews')
    BY <2>1 DEF Uncrossed, Enough, Counted, Due, LastSource, LastNews
  <2>4. Order'
    BY <2>1 DEF Uncrossed, Order
  <2>5. Follows'
    BY DEF Follows
  <2> QED
    BY <2>1, <2>2, <2>3, <2>4, <2>5 DEF Uncrossed, Echoed
<1> QED
  BY <1>1, <1>2 DEF DataControlInv

LEMMA ClientChangesInv ==
  ASSUME Types, DataControlInv, backend = "data_control",
         ClientClear \/ ClientSourceGone \/ \E c \in ClientCopies : ClientCopy(c)
  PROVE  DataControlInv'
<1>1. ASSUME NEW c \in ClientCopies \cup {None}
      PROVE  Append(toHost, [type |-> "set", sel |-> c]) # toHost
  BY AppendedAt, Constructed DEF Types, QueuesOK
<1>2. ASSUME NEW c \in ClientCopies \cup {None}, SetHost(c)
      PROVE  /\ UNCHANGED unechoed
             /\ \/ /\ toHost' = Append(toHost, [type |-> "set", sel |-> c])
                   /\ source' = c /\ suppress' = suppress + 1 /\ device' = device
                \/ ~device /\ UNCHANGED <<toHost, suppress, source, device>>
  BY <1>2 DEF SetHost, Wayland, WlSet, CanSet, wlVars
<1>3. CASE ClientClear
  <2>0. UNCHANGED unechoed
    BY <1>2, <1>3 DEF ClientClear
  <2>1. CASE /\ toHost' = Append(toHost, [type |-> "set", sel |-> None])
             /\ source' = None /\ suppress' = suppress + 1 /\ device' = device
    <3>1. seat' = View(None)
      BY <1>3, CopiesAssumption DEF ClientClear, View
    <3>2. crossed' = (crossed \/ NewsFromHost)
      BY <1>1, <1>3, <2>1 DEF ClientClear
    <3> QED
      BY <1>3, <2>0, <2>1, <3>1, <3>2, ToldInv, CopiesAssumption DEF ClientClear
  <2>2. CASE ~device /\ UNCHANGED <<toHost, suppress, source, device>>
    <3>1. /\ seat' = NoSelection
          /\ UNCHANGED <<backend, hostOwner, made, toHost, toEmthin, events, suppress, source, device, origin>>
          /\ ~device' /\ (~crossed' => ~crossed)
      BY <1>3, <2>2 DEF ClientClear
    <3> QED
      BY <2>0, <3>1, UntoldInv DEF NoSelection
  <2> QED
    BY <1>2, <1>3, <2>1, <2>2 DEF ClientClear
<1>4. ASSUME NEW c \in ClientCopies, ClientCopy(c) PROVE DataControlInv'
  <2>0. UNCHANGED unechoed
    BY <1>2, <1>4 DEF ClientCopy, wlVars
  <2>1. CASE /\ toHost' = Append(toHost, [type |-> "set", sel |-> c])
             /\ source' = c /\ suppress' = suppress + 1 /\ device' = device
    <3>1. seat' = View(c) /\ made' = made \cup ({c} \cap ClientCopies) /\ c \notin made
      BY <1>4 DEF ClientCopy, View
    <3>2. crossed' = (crossed \/ NewsFromHost) /\ origin' = "Wayland"
      BY <1>1, <1>4, <2>1 DEF ClientCopy, Originates
    <3>3. UNCHANGED <<backend, hostOwner, toEmthin, events>>
      BY <1>4 DEF ClientCopy
    <3> QED
      BY <2>0, <2>1, <3>1, <3>2, <3>3, ToldInv
  <2>2. CASE UNCHANGED <<toHost, suppress, source, device>>
    <3>1. /\ seat' = OnClients(c) /\ origin' = "Wayland" /\ made' = made \cup {c}
          /\ UNCHANGED <<backend, hostOwner, toHost, toEmthin, events, suppress, source>>
          /\ apart' /\ (~crossed' => ~crossed)
      BY <1>4, <2>2 DEF ClientCopy, Originates
    <3> QED
      BY <2>0, <3>1, UntoldInv DEF OnClients
  <2> QED
    BY <1>2, <1>4, <2>1, <2>2 DEF ClientCopy, wlVars
<1>5. CASE ClientSourceGone
  <2>1. /\ seat' = NoSelection /\ apart'
        /\ UNCHANGED <<backend, hostOwner, made, toHost, toEmthin, events, suppress, source, unechoed,
                       origin, crossed>>
    BY <1>5 DEF ClientSourceGone, hostVars, wlVars
  <2> QED
    BY <2>1, UntoldInv DEF NoSelection
<1> QED
  BY <1>3, <1>4, <1>5

LEMMA ClientStepInv ==
  ASSUME Types, DataControlInv, backend = "data_control",
         \/ EmacsConnection
         \/ \E p \in ClientPastes : ClientPaste(p)
         \/ \E f \in Pastes : ClientWrites(f) \/ PipeEnds(f)
  PROVE  DataControlInv'
<1>1. ASSUME NEW p \in ClientPastes, ClientPaste(p) PROVE DataControlInv'
  <2> DEFINE r == [type |-> "receive", sel |-> offer, paste |-> p]
  <2>1. toHost' = toHost \/ (offer # None /\ toHost' = Append(toHost, r))
    BY <1>1 DEF ClientPaste, WlReceive
  <2>2. Alike(toHost, toHost', Sets)
    <3>1. offer # None => r \in Requests
      BY Constructed DEF Types, TypeOK
    <3>2. offer # None => r \notin Sets
      BY <3>1, RequestSets
    <3> HIDE DEF r
    <3> QED
      BY <2>1, <3>1, <3>2, AlikeAppend, AlikeItself DEF Types, QueuesOK
  <2>3. Alike(toEmthin, toEmthin', Telling) /\ Alike(events, events', Changes \cup Losses)
    BY <1>1, AlikeItself DEF ClientPaste
  <2>4. UNCHANGED <<backend, hostOwner, made, source, suppress, device, seat, origin, apart, crossed,
                     unechoed>>
    BY <1>1 DEF ClientPaste, wlVars, bridgeVars
  <2> QED
    BY <2>2, <2>3, <2>4, QuietStep
<1>2. ASSUME UNCHANGED <<toHost, events, backend, hostOwner, made, source, suppress, device,
                         seat, origin, apart, crossed, unechoed>>,
             Alike(toEmthin, toEmthin', Telling)
      PROVE  DataControlInv'
  BY <1>2, AlikeItself, QuietStep
<1>3. ASSUME NEW f \in Pastes, ClientWrites(f) PROVE DataControlInv'
  <2>1. UNCHANGED <<toHost, toEmthin, events, backend, hostOwner, made, source, suppress, device,
                    seat, origin, apart, crossed, unechoed>>
    BY <1>3 DEF ClientWrites, wlVars
  <2> QED
    BY <1>2, <2>1, AlikeItself
<1>4. CASE EmacsConnection
  <2>1. UNCHANGED <<toHost, toEmthin, events, backend, hostOwner, made, source, suppress, device,
                    seat, origin, apart, crossed, unechoed>>
    BY <1>4 DEF EmacsConnection, hostVars, wlVars
  <2> QED
    BY <1>2, <2>1, AlikeItself
<1>5. ASSUME NEW f \in Pastes, PipeEnds(f) PROVE DataControlInv'
  <2> DEFINE a == NewValue("SEL")
             b == Notify("SEL", TRUE)
  <2>1. UNCHANGED <<toHost, events, backend, hostOwner, made, source, suppress, device,
                    seat, origin, apart, crossed, unechoed>>
    BY <1>5 DEF PipeEnds, wlVars, bridgeVars
  <2>2. toEmthin' \in {toEmthin, toEmthin \o <<a, b>>}
    BY <1>5 DEF PipeEnds, XComplete, Answered
  <2>3. a \in HostEvents /\ b \in HostEvents /\ toEmthin \in Seq(HostEvents)
    BY EventsConstructed DEF Types, QueuesOK, Props
  <2>4. a \notin Telling /\ b \notin Telling
    BY <2>3, EventSets DEF NewValue, Notify
  <2> HIDE DEF a, b
  <2>5. Append(toEmthin, a) \in Seq(HostEvents) /\ toEmthin \o <<a, b>> = Append(Append(toEmthin, a), b)
    BY <2>3
  <2>6. /\ Alike(toEmthin, Append(toEmthin, a), Telling)
        /\ Alike(Append(toEmthin, a), Append(Append(toEmthin, a), b), Telling)
    BY <2>3, <2>4, <2>5, AlikeAppend
  <2>7. Alike(toEmthin, toEmthin \o <<a, b>>, Telling)
    BY <2>5, <2>6 DEF Alike
  <2> QED
    BY <1>2, <2>1, <2>2, <2>7, AlikeItself
<1> QED
  BY <1>1, <1>3, <1>4, <1>5

-----------------------------------------------------------------------------
(* The compositor and the backend                                          *)

\* The tick takes an event.
LEMMA TickInv ==
  ASSUME Types, DataControlInv, backend = "data_control", TickEvent
  PROVE  DataControlInv'
<1> DEFINE x == Head(events)
           rest == Tail(events)
           gone == {source} \cap Copies
<1>1. /\ events # <<>> /\ events \in Seq(BridgeEvents) /\ x \in BridgeEvents
      /\ events' = rest /\ Handle(x)
      /\ UNCHANGED <<backend, hostOwner, made, toHost, toEmthin, suppress, source, device, crossed,
                     unechoed>>
  BY QueueSteps DEF Types, QueuesOK, TickEvent, wlVars
<1>2. /\ \A A : Absent(events, A) <=> Absent(rest, A) /\ x \notin A
      /\ \A A, B : NoneAfter(events, A, B) <=> NoneAfter(rest, A, B) /\ (x \notin A \/ Absent(rest, B))
      /\ \A A, s : LastIs(events, A, s) <=> LastIs(rest, A, s) /\ (x \in A /\ Absent(rest, A) => x.sel = s)
  BY <1>1, TailFacts
<1>3. (x \in Changes <=> x.type = "changed") /\ (x \in Losses <=> x.type = "sourceCancelled")
  BY <1>1, BridgeSets
<1>4. CASE HandleRequest(x)
  <2>1. Alike(events, events', Changes \cup Losses)
    <3>1. x \notin Changes \cup Losses
      BY <1>3, <1>4 DEF HandleRequest
    <3> QED
      BY <1>1, <3>1, AlikeTail
  <2>2. Alike(toHost, toHost', Sets) /\ Alike(toEmthin, toEmthin', Telling)
    BY <1>1, AlikeItself
  <2>3. UNCHANGED <<seat, origin, apart>>
    BY <1>4 DEF HandleRequest
  <2> QED
    BY <1>1, <2>1, <2>2, <2>3, QuietStep
<1> HIDE DEF x, rest
<1>5. Known'
  BY <1>1 DEF DataControlInv, Known
<1>6. CASE HandleChanged(x)
  <2>1. /\ x.type = "changed"
        /\ seat' = (IF x.sel = None THEN NoSelection ELSE OnHost(x.sel))
        /\ origin' = (IF x.sel = None THEN "Wayland" ELSE "Host")
    BY <1>6 DEF HandleChanged, Inject
  <2>2. ASSUME ~crossed' PROVE Uncrossed'
    <3>1. Uncrossed /\ x \in Changes /\ ~Absent(events, Changes)
      BY <1>1, <1>2, <1>3, <2>1, <2>2 DEF DataControlInv
    <3>2. hostOwner \notin ClientCopies /\ Absent(toHost, Sets)
      BY <3>1 DEF Uncrossed, OneWay, NoNews
    <3>3. Absent(rest, Losses) /\ Absent(toEmthin, Gone(gone))
      BY <1>2, <3>1 DEF Uncrossed, Order
    <3>4. OneWay' /\ Enough' /\ LastSource' /\ Owned' /\ (Counted => Counted')
      BY <1>1, <2>1, <3>1, <3>2
      DEF Uncrossed, OneWay, Enough, Counted, Due, LastSource, Owned, NoSelection, OnHost
    <3>5. Order'
      BY <1>1, <1>2, <3>1, <3>3 DEF Uncrossed, Order
    <3>6. LastNews => LastNews'
      BY <1>1, <1>2, <3>1 DEF LastNews
    <3>7. ASSUME LastNews PROVE Follows'
      <4>1. ASSUME Absent(toEmthin, News), Absent(rest, Changes) PROVE seat' = View(hostOwner)
        <5>1. x.sel = hostOwner
          BY <1>2, <3>1, <3>7, <4>1 DEF LastNews
        <5> QED
          BY <2>1, <3>2, <5>1 DEF View
      <4> QED
        BY <1>1, <3>2, <4>1 DEF Follows, NoNews, View, NoSelection, OnHost, OnClients
    <3> QED
      BY <1>1, <3>1, <3>4, <3>5, <3>6, <3>7 DEF Uncrossed, Echoed
  <2> QED
    BY <1>1, <1>5, <2>2 DEF DataControlInv
<1>7. CASE HandleCancelled(x)
  <2>1. x.type = "sourceCancelled" /\ origin' = "Wayland" /\ UNCHANGED <<seat, apart>>
    BY <1>7 DEF HandleCancelled
  <2>2. ASSUME ~crossed' PROVE Uncrossed'
    <3>1. Uncrossed /\ x \in Losses /\ x \notin Changes
      BY <1>1, <1>3, <2>1, <2>2 DEF DataControlInv
    <3>2. seat.by # "host" /\ (Absent(events', Changes) <=> Absent(events, Changes))
      BY <1>1, <1>2, <3>1 DEF Uncrossed, Order
    <3>3. NoNews' <=> NoNews
      BY <1>1, <3>2 DEF NoNews
    <3>4. OneWay' /\ Enough' /\ LastSource' /\ Owned' /\ (Counted => Counted')
      BY <1>1, <2>1, <3>1, <3>2, <3>3 DEF Uncrossed, OneWay, Enough, Counted, Due, LastSource, Owned
    <3>5. Order'
      BY <1>1, <1>2, <2>1, <3>1, <3>2 DEF Uncrossed, Order
    <3>6. LastNews => LastNews'
      BY <1>1, <1>2, <3>1 DEF LastNews
    <3>7. Follows => Follows'
      BY <1>1, <2>1, <3>3 DEF Follows, View, NoSelection, OnHost, OnClients
    <3> QED
      BY <1>1, <3>1, <3>4, <3>5, <3>6, <3>7 DEF Uncrossed, Echoed
  <2> QED
    BY <1>1, <1>5, <2>2 DEF DataControlInv
<1> QED
  BY <1>1, <1>4, <1>6, <1>7 DEF Handle

\* What the backend makes of an event.
LEMMA HandledAs ==
  ASSUME Types, backend = "data_control", DispatchDataControl, NEW e, e = Head(toEmthin)
  PROVE  /\ e \in HostEvents /\ toEmthin # <<>> /\ toEmthin' = Tail(toEmthin)
         /\ UNCHANGED <<backend, hostOwner, made, toHost, seat, origin, apart, crossed, unechoed>>
         /\ device' => device
         /\ \/ /\ e.type = "selection" /\ suppress > 0
               /\ suppress' = suppress - 1 /\ UNCHANGED <<events, source>>
            \/ /\ e.type = "selection" /\ suppress = 0
               /\ events' = Append(events, HostSelectionChanged(e.sel)) /\ UNCHANGED <<suppress, source>>
            \/ /\ e.type = "cancelled" /\ e.sel = source /\ source' = None
               /\ events' = Append(events, SourceCancelled) /\ UNCHANGED suppress
            \/ e.type = "cancelled" /\ e.sel # source /\ UNCHANGED <<suppress, source, events>>
            \/ /\ e.type \notin {"selection", "cancelled"} /\ UNCHANGED <<suppress, source>>
               /\ \/ events' = events
                  \/ e.type = "send" /\ events' = Append(events, HostSendRequest(e.paste))
<1>1. /\ e \in HostEvents /\ toEmthin # <<>> /\ toEmthin' = Tail(toEmthin)
      /\ UNCHANGED <<backend, hostOwner, made, toHost, seat, origin, apart, crossed>>
      /\ events' = events \o WlEmits(e) /\ WlHandles(e)
  BY QueueSteps DEF DispatchDataControl, Types, QueuesOK, bridgeVars
<1>2. suppress \in Nat /\ events \in Seq(BridgeEvents)
  BY DEF Types, TypeOK, QueuesOK
<1>3. events \o <<>> = events /\ \A x \in BridgeEvents : events \o <<x>> = Append(events, x)
  BY <1>2
<1>4. /\ e.type = "selection" => HostSelectionChanged(e.sel) \in BridgeEvents
      /\ e.type = "send" => HostSendRequest(e.paste) \in BridgeEvents
      /\ SourceCancelled \in BridgeEvents
  BY <1>1, EventFields, Constructed
<1>5. /\ (device' => device) /\ UNCHANGED unechoed
      /\ suppress' = IF Swallows(e) THEN suppress - 1 ELSE suppress
      /\ source' = IF e.type = "cancelled" /\ Alive(e) THEN None ELSE source
  BY <1>1 DEF WlHandles
<1>6. CASE e.type = "selection"
  <2>1. CASE suppress > 0
    <3>1. Swallows(e) /\ WlEmits(e) = <<>>
      BY <1>6, <2>1 DEF Swallows, WlEmits
    <3> QED
      BY <1>1, <1>3, <1>5, <1>6, <2>1, <3>1
  <2>2. CASE ~(suppress > 0)
    <3>1. ~Swallows(e) /\ WlEmits(e) = <<HostSelectionChanged(e.sel)>> /\ suppress = 0
      BY <1>2, <1>6, <2>2 DEF Swallows, WlEmits
    <3>2. events' = Append(events, HostSelectionChanged(e.sel))
      BY <1>1, <1>3, <1>4, <1>6, <3>1
    <3> QED
      BY <1>1, <1>5, <1>6, <3>1, <3>2
  <2> QED
    BY <2>1, <2>2
<1>7. CASE e.type = "cancelled"
  <2>1. CASE Alive(e)
    <3>1. ~Swallows(e) /\ WlEmits(e) = <<SourceCancelled>>
      BY <1>7, <2>1 DEF Swallows, WlEmits
    <3>2. events' = Append(events, SourceCancelled)
      BY <1>1, <1>3, <1>4, <3>1
    <3> QED
      BY <1>1, <1>5, <1>7, <2>1, <3>1, <3>2 DEF Alive
  <2>2. CASE ~Alive(e)
    <3>1. ~Swallows(e) /\ WlEmits(e) = <<>>
      BY <1>7, <2>2 DEF Swallows, WlEmits
    <3> QED
      BY <1>1, <1>3, <1>5, <1>7, <2>2, <3>1 DEF Alive
  <2> QED
    BY <2>1, <2>2
<1>8. CASE e.type \notin {"selection", "cancelled"}
  <2>1. ~Swallows(e) /\ \/ WlEmits(e) = <<>>
                        \/ e.type = "send" /\ WlEmits(e) = <<HostSendRequest(e.paste)>>
    BY <1>8 DEF Swallows, WlEmits
  <2>2. \/ events' = events
        \/ e.type = "send" /\ events' = Append(events, HostSendRequest(e.paste))
    BY <1>1, <1>3, <1>4, <2>1
  <2> QED
    BY <1>1, <1>5, <1>8, <2>1, <2>2
<1> QED
  BY <1>6, <1>7, <1>8

LEMMA DispatchInv ==
  ASSUME Types, DataControlInv, backend = "data_control", DispatchDataControl
  PROVE  DataControlInv'
<1> DEFINE e0 == Head(toEmthin)
           rest0 == Tail(toEmthin)
<1>0. PICK e, rest : e = e0 /\ rest = rest0
  OBVIOUS
<1> HIDE DEF e0, rest0
<1>1. /\ e \in HostEvents /\ toEmthin # <<>> /\ toEmthin' = rest
      /\ UNCHANGED <<backend, hostOwner, made, toHost, seat, origin, apart, crossed, unechoed>>
      /\ device' => device
  BY <1>0, HandledAs DEF e0, rest0
<1>2. /\ \A A : Absent(toEmthin, A) <=> Absent(rest, A) /\ e \notin A
      /\ \A A, B : NoneAfter(toEmthin, A, B) <=> NoneAfter(rest, A, B) /\ (e \notin A \/ Absent(rest, B))
      /\ \A A, s : LastIs(toEmthin, A, s) <=> LastIs(rest, A, s) /\ (e \in A /\ Absent(rest, A) => e.sel = s)
      /\ \A A : Count(toEmthin, A) = Count(rest, A) + (IF e \in A THEN 1 ELSE 0)
      /\ \A A : Count(rest, A) \in Nat
  BY <1>0, <1>1, TailFacts DEF e0, rest0, Types, QueuesOK
<1>3. /\ e.type \notin {"selection", "cancelled"} => e \notin Telling
      /\ e \in Echoes <=> e.type = "selection" /\ e.ours
      /\ e \in News <=> e.type = "selection" /\ ~e.ours
      /\ \A C \in SUBSET Copies : e \in Gone(C) <=> e.type = "cancelled" /\ e.sel \in C
      /\ e.type \in {"selection"} => e.sel \in Copies \cup {None}
      /\ e.type = "cancelled" => e.sel \in Copies
  BY <1>1, EventSets, EventFields
<1>4. /\ suppress \in Nat /\ Count(toHost, Sets) \in Nat /\ toHost \in Seq(Requests)
      /\ events \in Seq(BridgeEvents) /\ rest \in Seq(HostEvents)
  <2>1. toHost \in Seq(Requests) /\ events \in Seq(BridgeEvents) /\ rest \in Seq(HostEvents)
    BY <1>0, <1>1, QueueSteps DEF rest0, Types, QueuesOK
  <2> QED
    BY <2>1, CountIsNatural DEF Types, TypeOK
<1>5. \/ /\ e.type = "selection" /\ suppress > 0
         /\ suppress' = suppress - 1 /\ UNCHANGED <<events, source>>
      \/ /\ e.type = "selection" /\ suppress = 0
         /\ events' = Append(events, HostSelectionChanged(e.sel)) /\ UNCHANGED <<suppress, source>>
      \/ /\ e.type = "cancelled" /\ e.sel = source /\ source' = None
         /\ events' = Append(events, SourceCancelled) /\ UNCHANGED suppress
      \/ e.type = "cancelled" /\ e.sel # source /\ UNCHANGED <<suppress, source, events>>
      \/ /\ e.type \notin {"selection", "cancelled"} /\ UNCHANGED <<suppress, source>>
         /\ \/ events' = events
            \/ e.type = "send" /\ events' = Append(events, HostSendRequest(e.paste))
  BY <1>0, HandledAs DEF e0
<1>6. Known'
  <2>1. source' \in {source, None}
    BY <1>5
  <2> QED
    BY <1>1, <1>2, <2>1 DEF DataControlInv, Known
\* An echo is swallowed.
<1>7. CASE e \in Echoes
  <2>1. e.type = "selection" /\ e \notin News /\ \A C \in SUBSET Copies : e \notin Gone(C)
    BY <1>3, <1>7
  <2>2. ASSUME ~crossed' PROVE Uncrossed'
    <3>1. Uncrossed
      BY <1>1, <2>2 DEF DataControlInv
    <3>2. Count(toEmthin, Echoes) = Count(rest, Echoes) + 1 /\ Count(rest, Echoes) \in Nat
      BY <1>2, <1>7
    <3>3. suppress' = suppress - 1 /\ UNCHANGED <<events, source>>
      <4>1. suppress > 0
        BY <1>4, <3>1, <3>2 DEF Uncrossed, Enough, Due
      <4> QED
        BY <1>5, <2>1, <4>1
    <3>4. Enough' /\ (Counted => Counted')
      <4>1. Due' \in Nat /\ Due = Due' + 1
        BY <1>1, <1>4, <3>2 DEF Due
      <4>2. suppress \in Nat /\ suppress' = suppress - 1 /\ suppress >= Due
        BY <1>4, <3>1, <3>3 DEF Uncrossed, Enough
      <4>3. \A n, d \in Nat : n >= d + 1 => n - 1 >= d /\ (n = d + 1 => n - 1 = d)
        OBVIOUS
      <4>4. suppress - 1 >= Due' /\ (suppress = Due => suppress - 1 = Due')
        BY <4>1, <4>2, <4>3
      <4> QED
        BY <4>2, <4>4 DEF Enough, Counted
    <3>5. NoNews' <=> NoNews
      BY <1>1, <1>2, <2>1, <3>3 DEF NoNews
    <3>6. OneWay' /\ LastSource' /\ Owned'
      BY <1>1, <3>1, <3>3, <3>5 DEF Uncrossed, OneWay, LastSource, Owned
    <3>7. Order'
      BY <1>1, <1>2, <2>1, <3>1, <3>3 DEF Uncrossed, Order
    <3>8. LastNews => LastNews'
      BY <1>1, <1>2, <2>1, <3>3 DEF LastNews
    <3>9. Follows => Follows'
      BY <1>1, <3>5 DEF Follows, View, NoSelection, OnHost, OnClients
    <3> QED
      BY <1>1, <3>1, <3>4, <3>6, <3>7, <3>8, <3>9 DEF Uncrossed, Echoed
  <2> QED
    BY <1>1, <1>6, <2>2 DEF DataControlInv
\* News is not, as long as the counter is exact: there is nothing left to swallow.
<1>8. CASE e \in News
  <2> DEFINE gone == {source} \cap Copies
             x == HostSelectionChanged(e.sel)
  <2>1. e.type = "selection" /\ e \notin Echoes
    BY <1>3, <1>8
  <2>2. ASSUME ~crossed' PROVE Uncrossed'
    <3>1. Uncrossed /\ ~Absent(toEmthin, News)
      BY <1>1, <1>2, <1>8, <2>2 DEF DataControlInv
    <3>2. Absent(rest, Echoes \cup Gone(gone))
      BY <1>2, <1>8, <3>1 DEF Uncrossed, Order
    <3>3. Absent(rest, Echoes) /\ Absent(rest, Gone(gone))
      BY <3>2, AbsentFacts
    <3>4. hostOwner \notin ClientCopies /\ Absent(toHost, Sets)
      BY <3>1 DEF Uncrossed, OneWay, NoNews
    <3>5. Due = 0 /\ Due' = 0
      <4>1. Count(toHost, Sets) = 0 /\ Count(rest, Echoes) = 0
        BY <1>4, <3>3, <3>4, CountNone
      <4>2. Count(toEmthin, Echoes) = Count(rest, Echoes) + 0
        BY <1>2, <2>1
      <4> QED
        BY <1>1, <4>1, <4>2 DEF Due
    <3>6. suppress' \in Nat /\ UNCHANGED source /\ (unechoed' <=> unechoed)
      BY <1>1, <1>4, <1>5, <2>1
    <3>7. OneWay' /\ Enough' /\ LastSource' /\ Owned'
      BY <1>1, <3>1, <3>4, <3>5, <3>6 DEF Uncrossed, OneWay, Enough, LastSource, Owned
    <3>8. CASE suppress > 0 /\ UNCHANGED events
      <4>1. ~Counted
        BY <3>5, <3>8 DEF Counted
      <4>2. Order'
        BY <1>1, <1>2, <3>1, <3>3, <3>6, <3>8 DEF Uncrossed, Order
      <4> QED
        BY <3>1, <3>6, <3>7, <4>1, <4>2 DEF Uncrossed, Echoed
    <3>9. CASE suppress = 0 /\ events' = Append(events, x) /\ UNCHANGED suppress
      <4>1. x \in BridgeEvents /\ x \in Changes /\ x \notin Losses /\ x.sel = e.sel
        <5>1. x \in BridgeEvents
          BY <1>3, <2>1, Constructed
        <5> QED
          BY <5>1, BridgeSets DEF HostSelectionChanged
      <4> HIDE DEF x
      <4>2. /\ \A A : Absent(events', A) <=> Absent(events, A) /\ x \notin A
            /\ \A A, B : NoneAfter(events', A, B) <=> NoneAfter(events, A, B) /\ (x \notin B \/ Absent(events, A))
            /\ \A A, s : LastIs(events', A, s) <=> IF x \in A THEN x.sel = s ELSE LastIs(events, A, s)
        BY <1>4, <3>9, <4>1, AppendFacts
      <4>3. Order'
        BY <1>1, <1>2, <3>1, <3>3, <3>6, <4>1, <4>2 DEF Uncrossed, Order
      <4>4. LastNews => LastNews'
        BY <1>1, <1>2, <1>8, <4>1, <4>2 DEF LastNews
      <4>5. Counted' /\ Follows'
        BY <1>1, <3>4, <3>5, <3>9, <4>1, <4>2 DEF Counted, Follows, NoNews
      <4> QED
        BY <3>1, <3>6, <3>7, <4>3, <4>4, <4>5 DEF Uncrossed, Echoed
    <3> QED
      BY <1>5, <2>1, <3>8, <3>9
  <2> QED
    BY <1>1, <1>6, <2>2 DEF DataControlInv
\* The source is lost, or one before it was.
<1>9. CASE e.type = "cancelled"
  <2> DEFINE gone == {source} \cap Copies
  <2>1. e \notin Echoes /\ e \notin News /\ (e \in Gone(gone) <=> e.sel = source)
    BY <1>3, <1>9
  <2>2. ASSUME ~crossed' PROVE Uncrossed'
    <3>1. Uncrossed
      BY <1>1, <2>2 DEF DataControlInv
    <3>2. /\ Count(toEmthin, Echoes) = Count(rest, Echoes) /\ suppress' = suppress
          /\ Absent(toEmthin, News) <=> Absent(rest, News)
          /\ \A s : LastIs(toEmthin, News, s) <=> LastIs(rest, News, s)
          /\ NoneAfter(rest, News, Echoes \cup Gone(gone))
      BY <1>2, <1>5, <1>9, <2>1, <3>1 DEF Uncrossed, Order
    <3>3. Enough' /\ (Counted => Counted') /\ (unechoed' <=> unechoed)
      BY <1>1, <3>1, <3>2 DEF Uncrossed, Enough, Counted, Due
    <3>4. CASE e.sel # source /\ UNCHANGED <<source, events>>
      <4>1. NoNews' <=> NoNews
        BY <1>1, <3>2, <3>4 DEF NoNews
      <4>2. OneWay' /\ LastSource' /\ Owned' /\ (LastNews => LastNews')
        BY <1>1, <3>1, <3>2, <3>4, <4>1 DEF Uncrossed, OneWay, LastSource, Owned, LastNews
      <4>3. Order'
        BY <1>1, <1>2, <2>1, <3>1, <3>2, <3>4 DEF Uncrossed, Order
      <4>4. Follows => Follows'
        BY <1>1, <4>1 DEF Follows, View, NoSelection, OnHost, OnClients
      <4> QED
        BY <3>1, <3>3, <4>2, <4>3, <4>4 DEF Uncrossed, Echoed
    <3>5. CASE e.sel = source /\ source' = None /\ events' = Append(events, SourceCancelled)
      <4> DEFINE x == SourceCancelled
      <4>1. x \in BridgeEvents /\ x \notin Changes /\ x \in Losses
        <5>1. x \in BridgeEvents
          BY Constructed
        <5> QED
          BY <5>1, BridgeSets DEF SourceCancelled
      <4> HIDE DEF x
      <4>2. /\ \A A : Absent(events', A) <=> Absent(events, A) /\ x \notin A
            /\ \A A, B : NoneAfter(events', A, B) <=> NoneAfter(events, A, B) /\ (x \notin B \/ Absent(events, A))
            /\ \A A, s : LastIs(events', A, s) <=> IF x \in A THEN x.sel = s ELSE LastIs(events, A, s)
        <5>1. events' = Append(events, x)
          BY <3>5 DEF x
        <5> QED
          BY <1>4, <4>1, <5>1, AppendFacts
      <4>3. Absent(events, Changes) /\ seat.by # "host"
        BY <1>2, <2>1, <3>1, <3>5 DEF Uncrossed, Order
      <4>4. NoNews' <=> NoNews
        BY <1>1, <3>2, <4>1, <4>2 DEF NoNews
      <4>5. {None} \cap Copies = {} /\ {None} \cap ClientCopies = {}
        BY CopiesAssumption DEF Copies
      <4>6. OneWay' /\ Owned' /\ (LastNews => LastNews')
        BY <1>1, <3>1, <3>2, <4>1, <4>2, <4>4 DEF Uncrossed, OneWay, Owned, LastNews
      <4>7. LastSource'
        <5>1. NoneAfter(toHost, {}, Sets)
          BY DEF NoneAfter
        <5>2. NoneAfter(toHost, SetsOf({None} \cap ClientCopies), Sets)
          BY <4>5, <5>1, SubsetFacts
        <5> QED
          BY <1>1, <3>5, <5>2, CopiesAssumption DEF LastSource
      <4>8. Order'
        <5>1. Gone({None} \cap Copies) = {}
          BY <4>5, SubsetFacts
        <5>2. Absent(rest, Gone({None} \cap Copies))
          BY <5>1, AbsentFacts
        <5>3. NoneAfter(rest, News, Echoes \cup Gone({None} \cap Copies))
          BY <3>2, <5>1, AbsentFacts
        <5> QED
          BY <1>1, <3>1, <3>5, <4>1, <4>2, <4>3, <5>2, <5>3 DEF Uncrossed, Order
      <4>9. Follows => Follows'
        BY <1>1, <4>4 DEF Follows, View, NoSelection, OnHost, OnClients
      <4> QED
        BY <3>1, <3>3, <4>6, <4>7, <4>8, <4>9 DEF Uncrossed, Echoed
    <3> QED
      BY <1>5, <1>9, <3>4, <3>5
  <2> QED
    BY <1>1, <1>6, <2>2 DEF DataControlInv
<1>10. CASE e.type \notin {"selection", "cancelled"}
  <2>1. Alike(toEmthin, toEmthin', Telling)
    BY <1>0, <1>1, <1>3, <1>10, AlikeTail DEF e0, rest0, Types, QueuesOK
  <2>2. Alike(events, events', Changes \cup Losses)
    <3>1. CASE events' = events
      BY <3>1, AlikeItself
    <3>2. CASE e.type = "send" /\ events' = Append(events, HostSendRequest(e.paste))
      <4> DEFINE x == HostSendRequest(e.paste)
      <4>1. x \in BridgeEvents
        BY <1>1, <3>2, EventFields, Constructed
      <4>2. x \notin Changes \cup Losses
        BY <4>1, BridgeSets DEF HostSendRequest
      <4> HIDE DEF x
      <4>3. events' = Append(events, x)
        BY <3>2 DEF x
      <4> QED
        BY <1>4, <4>1, <4>2, <4>3, AlikeAppend
    <3> QED
      BY <1>5, <1>10, <3>1, <3>2
  <2>3. Alike(toHost, toHost', Sets) /\ UNCHANGED <<suppress, source>>
    BY <1>1, <1>5, <1>10, AlikeItself
  <2> QED
    BY <1>1, <2>1, <2>2, <2>3, QuietStep
<1> QED
  BY <1>3, <1>7, <1>8, <1>9, <1>10

LEMMA DataControlStep ==
  ASSUME Types, DataControlInv, [Next]_vars PROVE DataControlInv'
<1>1. CASE backend # "data_control"
  BY <1>1, BackendStays DEF DataControlInv
<1>2. CASE backend = "data_control"
  <2>1. CASE Progress
    <3>1. ~DispatchDataDevice /\ ~DispatchX11
      BY <1>2 DEF DispatchDataDevice, DispatchX11
    <3> QED
      BY <1>2, <2>1, <3>1, TickInv, DispatchInv, HostStepInv, ClientStepInv DEF Progress
  <2>2. CASE \/ EmacsConnection \/ ClientClear \/ ClientSourceGone
             \/ \E c \in ClientCopies : ClientCopy(c)
             \/ \E p \in ClientPastes : ClientPaste(p)
    BY <1>2, <2>2, ClientChangesInv, ClientStepInv
  <2>3. CASE \/ HostOwnerGone \/ HostFocus \/ DeviceFinished
             \/ \E h \in HostCopies : HostAppCopy(h)
             \/ \E f \in HostPastes : HostAppPaste(f)
    BY <1>2, <2>3, HostStepInv
  <2>4. CASE UNCHANGED vars
    <3>1. UNCHANGED <<backend, hostOwner, made, source, suppress, seat, origin, apart, crossed, unechoed,
                      device, toHost, toEmthin, events>>
      BY <2>4 DEF vars, hostVars, wlVars, bridgeVars
    <3> QED
      BY <1>2, <3>1, AlikeItself, QuietStep
  <2> QED
    BY <2>1, <2>2, <2>3, <2>4 DEF Next
<1> QED
  BY <1>1, <1>2

LEMMA DataControlInit == Init => DataControlInv
<1> SUFFICES ASSUME Init, backend = "data_control" PROVE Known /\ Uncrossed
  BY DEF DataControlInv
<1>1. /\ toHost = <<>> /\ toEmthin = <<>> /\ suppress = 0 /\ source = None
      /\ made = {hostOwner} /\ hostOwner \in HostCopies \cup {None} /\ seat = NoSelection
      /\ events = <<HostSelectionChanged(hostOwner)>> /\ origin = "Wayland"
  BY DEF Init
<1> DEFINE x == HostSelectionChanged(hostOwner)
<1>2. x \in BridgeEvents /\ x \in Changes /\ x \notin Losses /\ x.sel = hostOwner
  <2>1. x \in BridgeEvents
    BY <1>1, Constructed DEF Copies
  <2> QED
    BY <2>1, BridgeSets DEF HostSelectionChanged
<1>3. \A A : Absent(<<>>, A)
  BY DEF Absent
<1>4. /\ ~Absent(events, Changes) /\ Absent(events, Losses) /\ NoneAfter(events, Changes, Losses)
      /\ LastIs(events, Changes, hostOwner)
  <2> HIDE DEF x
  <2>1. /\ events = <<x>> /\ Len(events) = 1 /\ 1 \in 1 .. Len(events) /\ events[1] = x
        /\ \A i \in 1 .. Len(events) : events[i] = x
    BY <1>1 DEF x
  <2>2. ~Absent(events, Changes) /\ Absent(events, Losses)
    BY <1>2, <2>1 DEF Absent
  <2>3. NoneAfter(events, Changes, Losses) /\ LastIs(events, Changes, hostOwner)
    BY <1>2, <2>1 DEF NoneAfter, LastIs
  <2> QED
    BY <2>2, <2>3
<1>5. hostOwner \notin ClientCopies /\ seat.by = "none"
  BY <1>1, CopiesAssumption DEF NoSelection
<1>6. Known
  BY <1>1, <1>3 DEF Known
<1>7. Enough /\ Counted
  <2>1. <<>> \in Seq(Requests) /\ <<>> \in Seq(HostEvents)
    OBVIOUS
  <2>2. Count(<<>>, Sets) = 0 /\ Count(<<>>, Echoes) = 0
    BY <1>3, <2>1, CountNone
  <2> QED
    BY <1>1, <2>2 DEF Enough, Counted, Due
<1>8. OneWay /\ Owned
  BY <1>1, <1>3, <1>5 DEF OneWay, Owned
<1>9. LastSource /\ Order /\ LastNews
  BY <1>1, <1>3, <1>4, <1>5, AbsentFacts DEF LastSource, Order, LastNews
<1>10. Follows
  BY <1>1, <1>3, <1>4 DEF Follows, NoNews
<1> QED
  BY <1>6, <1>7, <1>8, <1>9, <1>10 DEF Uncrossed, Echoed

-----------------------------------------------------------------------------
(* The X11 backend, and none                                               *)

\* Steps that leave the seat and the origin alone, and add no loss.
LEMMA OtherQuiet ==
  ASSUME OtherInv, backend \in {"x11", "none"}, UNCHANGED <<seat, origin>>,
         events' = events \/ Alike(events, events', Changes \cup Losses)
                          \/ \E x \in BridgeEvents : x \notin Losses /\ events' = Append(events, x),
         Types
  PROVE  OtherInv'
<1>1. events \in Seq(BridgeEvents) /\ Absent(events, Losses)
  BY DEF Types, QueuesOK, OtherInv
<1>2. Losses \in SUBSET (Changes \cup Losses)
  BY SubsetFacts
<1>3. Absent(events', Losses)
  <2>1. ASSUME NEW x \in BridgeEvents, x \notin Losses PROVE Absent(Append(events, x), Losses)
    BY <1>1, <2>1, AppendFacts
  <2> QED
    BY <1>1, <1>2, <2>1 DEF Alike
<1> QED
  BY <1>3 DEF OtherInv, Owned

LEMMA OtherTick ==
  ASSUME Types, OtherInv, backend \in {"x11", "none"}, TickEvent PROVE OtherInv'
<1> DEFINE x == Head(events)
<1>1. /\ x \in BridgeEvents /\ events \in Seq(BridgeEvents) /\ events # <<>> /\ events' = Tail(events)
  BY QueueSteps DEF TickEvent, Types, QueuesOK
<1>2. x \notin Losses /\ Absent(events', Losses) /\ Owned
  <2>1. Absent(events, Losses) <=> Absent(Tail(events), Losses) /\ x \notin Losses
    BY <1>1, TailFacts
  <2> QED
    BY <1>1, <2>1 DEF OtherInv
<1>3. x.type # "sourceCancelled"
  BY <1>1, <1>2, BridgeSets
<1>4. HandleXRequest(x) \/ HandleChanged(x) \/ HandleRequest(x)
  BY <1>3 DEF TickEvent, Handle, HandleCancelled
<1> HIDE DEF x
<1>5. Owned'
  <2>1. CASE HandleXRequest(x) \/ HandleRequest(x)
    BY <1>2, <2>1 DEF HandleXRequest, HandleRequest, Owned
  <2>2. CASE HandleChanged(x)
    BY <2>2 DEF HandleChanged, Inject, Owned, NoSelection, OnHost
  <2> QED
    BY <1>4, <2>1, <2>2
<1> QED
  BY <1>2, <1>5 DEF OtherInv

LEMMA OtherDispatch ==
  ASSUME Types, OtherInv, backend \in {"x11", "none"}, DispatchX11 PROVE OtherInv'
<1> DEFINE e == Head(toEmthin)
<1>1. e \in HostEvents /\ UNCHANGED <<seat, origin>>
  BY QueueSteps DEF DispatchX11, XDispatch, bridgeVars, Types, QueuesOK
<1>2. PICK h : h = e
  OBVIOUS
<1>3. OnAskAnswered(h) \/ OnXfixes(h) \/ OnRefusal(h) \/ OnNotify(h) \/ OnNewValue(h) \/ OnAskData(h)
  BY <1>2 DEF DispatchX11, XDispatch
<1>4. \/ events' = events
      \/ \E c \in Copies \cup {None} : events' = Append(events, HostSelectionChanged(c))
      \/ \E f \in Pastes : events' = Append(events, HostSendRequest(f))
  <2>1. CASE OnXfixes(h)
    BY <2>1 DEF OnXfixes
  <2>2. CASE OnNotify(h)
    <3> DEFINE k == h.prop
               c == IF prop[k] # None /\ prop[k].what = "targets" THEN prop[k].sel ELSE None
    <3>1. events' = events \/ events' = Append(events, HostSelectionChanged(c))
      BY <2>2 DEF OnNotify
    <3>2. c \in Copies \cup {None}
      <4>1. k \in Props /\ prop[k] \in Contents \cup {None}
        BY <1>1, <1>2, <2>2, EventFields DEF OnNotify, Types, XTypes
      <4> QED
        BY <4>1 DEF Contents
    <3> QED
      BY <3>1, <3>2
  <2>3. CASE OnAskData(h)
    <3>1. h.paste \in Pastes
      BY <1>1, <1>2, <2>3, EventFields DEF OnAskData
    <3> QED
      BY <2>3, <3>1 DEF OnAskData
  <2>4. CASE OnAskAnswered(h) \/ OnRefusal(h) \/ OnNewValue(h)
    BY <2>4 DEF OnAskAnswered, OnRefusal, OnNewValue
  <2> QED
    BY <1>3, <2>1, <2>2, <2>3, <2>4
<1>5. ASSUME NEW c \in Copies \cup {None}
      PROVE  HostSelectionChanged(c) \in BridgeEvents /\ HostSelectionChanged(c) \notin Losses
  <2>1. HostSelectionChanged(c) \in BridgeEvents
    BY Constructed
  <2> QED
    BY <2>1, BridgeSets DEF HostSelectionChanged
<1>6. ASSUME NEW f \in Pastes
      PROVE  HostSendRequest(f) \in BridgeEvents /\ HostSendRequest(f) \notin Losses
  <2>1. HostSendRequest(f) \in BridgeEvents
    BY Constructed
  <2> QED
    BY <2>1, BridgeSets DEF HostSendRequest
<1> QED
  BY <1>1, <1>4, <1>5, <1>6, OtherQuiet

LEMMA OtherStep ==
  ASSUME Types, OtherInv, [Next]_vars PROVE OtherInv'
<1>0. CASE backend \notin {"x11", "none"}
  BY <1>0, BackendStays DEF OtherInv
<1>1. CASE backend \in {"x11", "none"}
  <2>1. CASE TickEvent \/ DispatchX11
    BY <1>1, <2>1, OtherTick, OtherDispatch
  <2>2. CASE ClientClear \/ ClientSourceGone
    BY <1>1, <2>2 DEF ClientClear, ClientSourceGone, hostVars, OtherInv, Owned, NoSelection
  <2>3. ASSUME NEW c \in ClientCopies, ClientCopy(c) PROVE OtherInv'
    BY <1>1, <2>3 DEF ClientCopy, Originates, OtherInv, Owned, OnClients
  <2>4. CASE \/ EmacsConnection
             \/ \E p \in ClientPastes : ClientPaste(p)
             \/ \E f \in Pastes : ClientWrites(f) \/ PipeEnds(f)
             \/ \E f \in HostPastes : HostAppPaste(f)
    <3>1. UNCHANGED <<seat, origin, events>>
      BY <2>4 DEF EmacsConnection, ClientPaste, ClientWrites, PipeEnds, HostAppPaste, HostAppPastes,
         XAppPastes, hostVars, bridgeVars
    <3> QED
      BY <1>1, <3>1, OtherQuiet
  <2>5. CASE \/ HostAnswers \/ HostFeeds \/ HostOwnerGone \/ HostFocus \/ DeviceFinished
             \/ \E h \in HostCopies : HostAppCopy(h)
    <3>1. UNCHANGED <<seat, origin, events>>
      BY <2>5 DEF HostAnswers, HostSets, HostReceives, XSets, XConverts, HostFeeds, XFeeds,
         HostOwnerGone, HostOwnerQuits, XOwnerQuits, HostFocus, HostFocusIn, HostFocusOut,
         DeviceFinished, HostFinishes, HostAppCopy, HostAppCopies, XAppCopies, bridgeVars
    <3> QED
      BY <1>1, <3>1, OtherQuiet
  <2>6. CASE UNCHANGED vars
    <3>1. UNCHANGED <<seat, origin, events>>
      BY <2>6 DEF vars, hostVars, bridgeVars
    <3> QED
      BY <1>1, <3>1, OtherQuiet
  <2>7. ~DispatchDataControl /\ ~DispatchDataDevice
    BY <1>1 DEF DispatchDataControl, DispatchDataDevice
  <2> QED
    BY <2>1, <2>2, <2>3, <2>4, <2>5, <2>6, <2>7 DEF Next, Progress
<1> QED
  BY <1>0, <1>1

LEMMA OtherInit == Init => OtherInv
<1> SUFFICES ASSUME Init, backend \in {"x11", "none"} PROVE Owned /\ Absent(events, Losses)
  BY DEF OtherInv
<1>1. seat = NoSelection /\ events = <<>>
  BY DEF Init
<1> QED
  BY <1>1 DEF Owned, NoSelection, Absent

-----------------------------------------------------------------------------
(* The theorems                                                            *)

LEMMA AgreementInvariant == Spec => [](Types /\ DataControlInv /\ OtherInv)
<1>1. Init => Types /\ DataControlInv /\ OtherInv
  BY InitTypes, DataControlInit, OtherInit
<1>2. (Types /\ DataControlInv /\ OtherInv) /\ [Next]_vars => (Types /\ DataControlInv /\ OtherInv)'
  BY StepTypes, DataControlStep, OtherStep
<1> QED
  BY <1>1, <1>2, PTL DEF Spec

\* clipboard_origin names the side that holds the seat's selection, so that a
\* paste goes to who has the data; not over wl_data_device, nor once a change of
\* the host has crossed one of ours.  It needs only that every echo is swallowed.
THEOREM OriginNamesOwnerCorrect == Spec => []OriginNamesOwner
<1>1. Types /\ DataControlInv /\ OtherInv => OriginNamesOwner
  BY DEF Types, TypeOK, DataControlInv, OtherInv, Uncrossed, Owned, OriginNamesOwner
<1> QED
  BY <1>1, AgreementInvariant, PTL

\* As long as the host echoes every request of ours, suppress_clipboard swallows
\* the echoes and nothing else: when nothing is on its way any more, the seat and
\* the host have the same selection; but not when changes have crossed, nor when
\* the host was not told of the clients' (a copy while Emacs is away, the end of
\* the client that owned it).
THEOREM AgreeOnceQuietCorrect == Spec => []AgreeOnceQuiet
<1>1. Types /\ DataControlInv => AgreeOnceQuiet
  <2> SUFFICES ASSUME Types, DataControlInv, backend = "data_control", device, Quiet, ~crossed,
                      ~apart, ~unechoed
               PROVE  SidesAgree
    BY DEF AgreeOnceQuiet
  <2>1. Absent(toHost, Sets) /\ NoNews
    BY DEF Quiet, Absent, NoNews
  <2>2. seat = View(hostOwner)
    BY <2>1 DEF DataControlInv, Uncrossed, Echoed, Follows
  <2>3. hostOwner \in ClientCopies \cup HostCopies \cup {None}
    BY DEF Types, TypeOK, Copies
  <2> QED
    BY <2>2, <2>3, CopiesAssumption DEF SidesAgree, View
<1> QED
  BY <1>1, AgreementInvariant, PTL

=============================================================================
