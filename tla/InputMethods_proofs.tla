------------------------- MODULE InputMethods_proofs -------------------------
(***************************************************************************)
(* The input method bridge and the D-Bus router, for any number of         *)
(* surfaces, contexts, applications, rules and calls: types; the routing   *)
(* table is sorted and obeyed; the bridge, the keyboard, the text-input    *)
(* handle and the host agree.                                              *)
(***************************************************************************)
EXTENDS InputMethods, FcitxRouter_proofs

----------------------------------------------------------------------------
(* The call the table is locked for.  DenyIsFinal is not inductive: an       *)
(* application that sends while its call is at the bus could put another     *)
(* call in that one's place.  DenyInv says that this call is there.          *)

DenyInv ==
  /\ call \in [Clients -> Calls \cup {None}]
  /\ held # None =>
       held \in Clients /\ call[held] # None /\ Route(table, call[held]) # "deny"

\* What the compositor's thread does leaves the table, the calls and the lock
\* alone: its requests go through the channel.
LEMMA MainLeavesCalls ==
  ASSUME MainThread \/ Tick \/ Time
  PROVE  UNCHANGED <<table, held, call>>
<1>1. ASSUME NEW k, Command(k) PROVE UNCHANGED <<table, held, call>>
  BY <1>1 DEF Command
<1>2. CASE MainThread
  BY <1>1, <1>2 DEF MainThread, Switch, Text, Ask, routerVars
<1>3. CASE Tick
  BY <1>3 DEF Tick, TakeEvents, HandleEvent, EventsHandled, TakeRest, RouterSame, routerVars
<1>4. CASE Time
  BY <1>4 DEF Time, routerVars
<1> QED
  BY <1>2, <1>3, <1>4

\* The command thread changes the table only while nobody holds it.
LEMMA WorkKeepsDeny ==
  ASSUME DenyInv, Work
  PROVE  DenyInv'
<1>1. UNCHANGED <<held, call>>
  BY DEF Work, AddRule, RemoveRule, ListRules, RelayCommit, RelayPreedit
<1>2. held # None => UNCHANGED table
  BY DEF Work, AddRule, RemoveRule, ListRules, RelayCommit, RelayPreedit
<1> QED
  BY <1>1, <1>2 DEF DenyInv

\* A call is decided while the table is free, and only one goes to the bus at
\* a time.
LEMMA FilterKeepsDeny ==
  ASSUME DenyInv, NEW c \in Clients, Send(c) \/ Filter(c)
  PROVE  DenyInv'
<1> USE DEF DenyInv
<1>1. CASE Send(c)
  <2>1. call[c] = None /\ UNCHANGED <<table, held>>
    BY <1>1 DEF Send
  <2>2. PICK m \in Calls : call' = [call EXCEPT ![c] = m]
    BY <1>1 DEF Send
  <2> QED
    BY <2>1, <2>2
<1>2. CASE Deny(c) \/ AnswerFcitx(c) \/ PassToConnection(c)
  <2>1. held = None /\ held' = held
    BY <1>2 DEF Deny, AnswerFcitx, PassToConnection, Filtering
  <2>2. call' = call \/ call' = [call EXCEPT ![c] = None]
    BY <1>2 DEF Deny, AnswerFcitx, PassToConnection
  <2> QED
    BY <2>1, <2>2
<1>3. CASE Forward(c)
  BY <1>3 DEF Forward, Filtering, ToForward
<1>4. CASE BusAnswers(c)
  BY <1>4 DEF BusAnswers
<1> QED
  BY <1>1, <1>2, <1>3, <1>4 DEF Filter

----------------------------------------------------------------------------
(* Types of what the router keeps and sends, and the order of its table *)

Notices == FcitxEvents \cup Answers

\* What can be said of a command by its kind.
LEMMA CommandKinds ==
  ASSUME NEW k \in Commands
  PROVE  /\ k.kind = "add" => k.rule \in Rules
         /\ k.kind = "remove" => k.id \in {r.id : r \in Rules}
<1>1. CASE k \in Requests
  BY <1>1 DEF Requests
<1>2. ASSUME NEW l \in Texts, NEW p \in Paths, k = ToContext(l, p)
      PROVE  k.kind \notin {"add", "remove"}
  BY <1>2, TextsAssumption DEF ToContext
<1>3. k \in Requests \/ \E l \in Texts, p \in Paths : k = ToContext(l, p)
  BY DEF Commands
<1> QED
  BY <1>1, <1>2, <1>3

RouterTypes ==
  /\ TypeOKRouter
  /\ commands \in Seq(Commands)
  /\ notices \in Seq(Notices)
  /\ Sorted(table)

\* What a call says of an input context, if it says anything, is an event.
LEMMA EventTypes ==
  ASSUME NEW m \in Calls, Classified(m)
  PROVE  Event(m) \in Seq(Notices)
<1>1. /\ m.method \in {"FocusIn", "FocusOut", "SetCursorRect", "DestroyIC"} => m.path \in Paths
      /\ m.method = "SetCursorRect" => m.rect \in Rects
  BY CallsAssumption
<1>2. \A n \in Notices : <<n>> \in Seq(Notices)
  OBVIOUS
<1>3. CASE m.method = "FocusIn"
  <2>1. [kind |-> "focus", ic |-> m.path, on |-> TRUE] \in Notices
    BY <1>1, <1>3 DEF Notices, FcitxEvents
  <2> QED
    BY <1>2, <1>3, <2>1 DEF Event
<1>4. CASE m.method = "FocusOut"
  <2>1. [kind |-> "focus", ic |-> m.path, on |-> FALSE] \in Notices
    BY <1>1, <1>4 DEF Notices, FcitxEvents
  <2> QED
    BY <1>2, <1>4, <2>1 DEF Event
<1>5. CASE m.method = "SetCursorRect"
  <2>1. [kind |-> "rect", ic |-> m.path, rect |-> m.rect] \in Notices
    BY <1>1, <1>5 DEF Notices, FcitxEvents
  <2> QED
    BY <1>2, <1>5, <2>1 DEF Event
<1>6. CASE m.method = "DestroyIC"
  <2>1. [kind |-> "destroyed", ic |-> m.path] \in Notices
    BY <1>1, <1>6 DEF Notices, FcitxEvents
  <2> QED
    BY <1>2, <1>6, <2>1 DEF Event
<1>7. CASE m.method \notin {"FocusIn", "FocusOut", "SetCursorRect", "DestroyIC"}
  BY <1>7, EmptySeq DEF Event
<1> QED
  BY <1>3, <1>4, <1>5, <1>6, <1>7

LEMMA CommandTypes ==
  ASSUME RouterTypes, NEW k \in Commands, Command(k)
  PROVE  RouterTypes'
BY DEF RouterTypes, TypeOKRouter, Command

LEMMA FilterTypes ==
  ASSUME RouterTypes, NEW c \in Clients, Send(c) \/ Filter(c)
  PROVE  RouterTypes'
<1>1. CASE Send(c)
  BY <1>1 DEF Send, RouterTypes, TypeOKRouter
<1>2. CASE Deny(c)
  BY <1>2 DEF Deny, RouterTypes, TypeOKRouter
<1>3. CASE AnswerFcitx(c)
  <2>0. call[c] \in Calls /\ Classified(call[c])
    BY <1>3 DEF AnswerFcitx, Filtering, RouterTypes, TypeOKRouter
  <2>1. UNCHANGED <<worker, table, held, commands, relayed, calls, asks>>
    BY <1>3 DEF AnswerFcitx
  <2>2. /\ bridge' \in {"starting", "up", "down", "aborted"}
        /\ call' \in [Clients -> Calls \cup {None}]
    BY <1>3 DEF AnswerFcitx, RouterTypes, TypeOKRouter
  <2>3. registry' \in [Paths -> Clients \cup {None}]
    BY <1>3 DEF AnswerFcitx, RouterTypes, TypeOKRouter
  <2>4. notices' = notices \/ notices' = notices \o Event(call[c])
    BY <1>3 DEF AnswerFcitx, Notify
  <2>5. notices' \in Seq(Notices)
    BY <2>0, <2>4, EventTypes, ConcatProperties DEF RouterTypes
  <2> QED
    BY <2>1, <2>2, <2>3, <2>5 DEF RouterTypes, TypeOKRouter
<1>4. CASE PassToConnection(c)
  BY <1>4 DEF PassToConnection, RouterTypes, TypeOKRouter
<1>5. CASE Forward(c)
  BY <1>5 DEF Forward, RouterTypes, TypeOKRouter
<1>6. CASE BusAnswers(c)
  BY <1>6 DEF BusAnswers, RouterTypes, TypeOKRouter
<1> QED
  BY <1>1, <1>2, <1>3, <1>4, <1>5, <1>6 DEF Filter

LEMMA WorkTypes ==
  ASSUME RouterTypes, Work
  PROVE  RouterTypes'
<1> DEFINE k == Head(commands)
<1>0. commands # <<>> /\ k \in Commands /\ Tail(commands) \in Seq(Commands)
  BY HeadTailProperties
  DEF RouterTypes, Work, AddRule, RemoveRule, ListRules, RelayCommit, RelayPreedit, Serving
<1>a. notices \in Seq(Notices) /\ table \in Seq(AllRules) /\ Sorted(table)
  BY DEF RouterTypes, TypeOKRouter
<1>1. CASE AddRule
  <2>1. /\ commands' = Tail(commands) /\ table' = AddTo(table, k.rule)
        /\ notices' = Append(notices, [kind |-> "added", id |-> k.rule.id])
        /\ UNCHANGED <<bridge, worker, held, registry, call, relayed, calls, asks>>
    BY <1>1, <1>a DEF AddRule, Served, Notify
  <2>2. k.rule \in AllRules
    BY <1>0, <1>1, CommandKinds DEF AddRule, Serving, AllRules
  <2>3. [kind |-> "added", id |-> k.rule.id] \in Notices
    BY <2>2 DEF Notices, Answers
  <2>4. table' \in Seq(AllRules) /\ Sorted(table')
    BY <1>a, <2>1, <2>2, AddToSorted
  <2>5. notices' \in Seq(Notices)
    BY <1>a, <2>1, <2>3, AppendProperties
  <2> QED
    BY <1>0, <2>1, <2>4, <2>5 DEF RouterTypes, TypeOKRouter, Sorted
<1>2. CASE RemoveRule
  <2>1. /\ commands' = Tail(commands) /\ table' = RemoveFrom(table, k.id)
        /\ notices' = Append(notices, [kind |-> "removed", id |-> k.id])
        /\ UNCHANGED <<bridge, worker, held, registry, call, relayed, calls, asks>>
    BY <1>2, <1>a DEF RemoveRule, Served, Notify
  <2>2. k.id \in {r.id : r \in AllRules}
    BY <1>0, <1>2, CommandKinds DEF RemoveRule, Serving, AllRules
  <2>3. [kind |-> "removed", id |-> k.id] \in Notices
    BY <2>2 DEF Notices, Answers
  <2>4. table' \in Seq(AllRules) /\ Sorted(table')
    BY <1>a, <2>1, RemoveFromSorted
  <2>5. notices' \in Seq(Notices)
    BY <1>a, <2>1, <2>3, AppendProperties
  <2> QED
    BY <1>0, <2>1, <2>4, <2>5 DEF RouterTypes, TypeOKRouter, Sorted
<1>3. CASE ListRules
  <2>1. /\ commands' = Tail(commands)
        /\ notices' = Append(notices, [kind |-> "list", rules |-> table])
        /\ UNCHANGED <<bridge, worker, table, held, registry, call, relayed, calls, asks>>
    BY <1>3, <1>a DEF ListRules, Served, Notify
  <2>2. [kind |-> "list", rules |-> table] \in Notices
    BY <1>a DEF Notices, Answers
  <2>3. notices' \in Seq(Notices)
    BY <1>a, <2>1, <2>2, AppendProperties
  <2> QED
    BY <1>0, <2>1, <2>3 DEF RouterTypes, TypeOKRouter, Sorted
<1>4. CASE RelayCommit
  <2>1. /\ commands' = Tail(commands) /\ relayed' \in Nat
        /\ UNCHANGED <<bridge, worker, table, held, registry, call, notices, calls, asks>>
    BY <1>4 DEF RelayCommit, Served, RouterTypes, TypeOKRouter
  <2> QED
    BY <1>0, <2>1 DEF RouterTypes, TypeOKRouter, Sorted
<1>5. CASE RelayPreedit
  <2>1. /\ commands' \in {Tail(commands), <<>>} /\ relayed' \in Nat
        /\ worker' \in {"runs", "dead"}
        /\ UNCHANGED <<bridge, table, held, registry, call, notices, calls, asks>>
    BY <1>5 DEF RelayPreedit, Served, RouterTypes, TypeOKRouter
  <2>2. commands' \in Seq(Commands)
    BY <1>0, <2>1, EmptySeq
  <2> QED
    BY <2>1, <2>2 DEF RouterTypes, TypeOKRouter, Sorted
<1> QED
  BY <1>1, <1>2, <1>3, <1>4, <1>5 DEF Work

----------------------------------------------------------------------------
(* Operations on the bridge *)

\* What the bridge may be, given the carets reported and the one the handle
\* has: an owner by text-input has a caret to show; a caret taken for real, or
\* remembered, was reported by its owner; and the handle's was reported by the
\* owner unless it is the one found when it became so.
Sound(i, rep, rect) ==
  /\ i \in Ime!BridgeState
  /\ i.owner.kind = "tip" \/ i.real => i.cursor # None
  /\ i.real => <<Ime!Key(i.owner), i.cursor.rect>> \in rep
  /\ \A k \in Ime!Keys : i.cache[k] # None => <<k, i.cache[k]>> \in rep
  /\ i.owner.kind = "tip" /\ rect \notin {None, i.snapshot} =>
       <<i.owner.surface, rect>> \in rep

LEMMA OwnerKinds ==
  ASSUME NEW o \in Ime!Owners
  PROVE  \/ o.kind = "none" /\ o = Ime!Nobody /\ Ime!Key(o) = None
         \/ o.kind = "tip" /\ o.surface \in Surfaces /\ o = Ime!Tip(o.surface) /\ Ime!Key(o) = o.surface
         \/ o.kind = "dbus" /\ o.ic \in Paths /\ o.origin \in Surfaces \cup {None} /\ Ime!Key(o) = o.ic
BY DEF Ime!Owners, Ime!Nobody, Ime!Tip, Ime!Dbus, Ime!Key

\* The key tells who owns the bridge.
LEMMA KeyTells ==
  ASSUME NEW o \in Ime!Owners, NEW q \in Ime!Owners, Ime!Key(o) = Ime!Key(q)
  PROVE  /\ o.kind = q.kind
         /\ o.kind = "tip" => o.surface = q.surface
         /\ o.kind = "dbus" => o.ic = q.ic
BY OwnerKinds, NamesAssumption

LEMMA OwnedFields ==
  ASSUME NEW i \in Ime!BridgeState, NEW o \in Ime!Owners
  PROVE  LET j == Ime!Owned(i, o) IN
         /\ j \in Ime!BridgeState
         /\ j.owner = o /\ j.cursor = None /\ ~j.real /\ j.snapshot = None
         /\ j.settling = FALSE /\ j.received = FALSE
         /\ j.focused = i.focused /\ j.cache = i.cache
BY DEF Ime!BridgeState, Ime!Owned

LEMMA AtIsCaret ==
  ASSUME NEW o \in Surfaces \cup {None}, NEW r \in Rects \cup {"corner"}
  PROVE  Ime!At(o, r) \in Ime!Carets /\ Ime!At(o, r) # None /\ Ime!At(o, r).rect = r
BY NamesAssumption DEF Ime!At, Ime!Carets, Ime!Corner

LEMMA OwnedSound ==
  ASSUME NEW i, NEW rep, NEW rect, Sound(i, rep, rect)
  PROVE  Sound(Ime!Owned(i, Ime!Nobody), rep, rect)
<1> DEFINE j == Ime!Owned(i, Ime!Nobody)
<1>1. Ime!Nobody \in Ime!Owners /\ Ime!Nobody.kind = "none"
  BY DEF Ime!Owners, Ime!Nobody
<1>2. /\ j \in Ime!BridgeState /\ j.owner.kind = "none" /\ ~j.real /\ j.cache = i.cache
  BY <1>1, OwnedFields DEF Sound
<1> HIDE DEF j
<1>3. Sound(j, rep, rect)
  BY <1>2 DEF Sound
<1> QED
  BY <1>3 DEF j

LEMMA TipOwnedSound ==
  ASSUME NEW i, NEW rep, NEW rect \in Rects \cup {None}, NEW s \in Surfaces, Sound(i, rep, rect)
  PROVE  LET j == Ime!TipOwned(i, s, rect) IN
         Sound(j, rep, rect) /\ j.owner = Ime!Tip(s) /\ j.focused = i.focused
<1> DEFINE k == Ime!Owned(i, Ime!Tip(s))
           j == Ime!TipOwned(i, s, rect)
           caret == Ime!At(s, IF i.cache[s] = None THEN "corner" ELSE i.cache[s])
<1>1. Ime!Tip(s) \in Ime!Owners /\ Ime!Tip(s).kind = "tip" /\ Ime!Tip(s).surface = s
  BY DEF Ime!Owners, Ime!Tip
<1>2. k \in Ime!BridgeState /\ k.owner = Ime!Tip(s) /\ k.focused = i.focused /\ k.cache = i.cache
  BY <1>1, OwnedFields DEF Sound
<1>3. s \in Ime!Keys /\ i.cache[s] \in Rects \cup {None}
  BY DEF Sound, Ime!BridgeState, Ime!Keys
<1>4. caret \in Ime!Carets /\ caret # None /\ (i.cache[s] # None => caret.rect = i.cache[s])
  BY <1>3, AtIsCaret
<1>5. j = [k EXCEPT !.snapshot = rect, !.cursor = caret, !.real = i.cache[s] # None]
  BY DEF Ime!TipOwned, Ime!Corner
<1> HIDE DEF k, j, caret
<1>6. /\ j \in Ime!BridgeState /\ j.owner = Ime!Tip(s) /\ j.focused = i.focused
      /\ j.cache = i.cache /\ j.snapshot = rect /\ j.cursor = caret
      /\ j.real = (i.cache[s] # None)
  BY <1>2, <1>4, <1>5 DEF Ime!BridgeState
<1>7. Ime!Key(j.owner) = s
  BY <1>1, <1>6, OwnerKinds
<1>8. Sound(j, rep, rect)
  BY <1>1, <1>3, <1>4, <1>6, <1>7 DEF Sound
<1> QED
  BY <1>6, <1>8 DEF j

LEMMA DbusOwnedSound ==
  ASSUME NEW i, NEW rep, NEW rect, NEW p \in Paths, NEW q \in Surfaces \cup {None},
         Sound(i, rep, rect)
  PROVE  LET j == Ime!DbusOwned(i, Ime!Dbus(p, q)) IN
         Sound(j, rep, rect) /\ j.owner = Ime!Dbus(p, q) /\ j.focused = i.focused
<1> DEFINE o == Ime!Dbus(p, q)
           k == Ime!Owned(i, o)
           j == Ime!DbusOwned(i, o)
           caret == Ime!At(q, i.cache[p])
<1>1. o \in Ime!Owners /\ o.kind = "dbus" /\ o.ic = p /\ o.origin = q
  BY DEF Ime!Owners, Ime!Dbus
<1>2. /\ k \in Ime!BridgeState /\ k.owner = o /\ k.focused = i.focused /\ k.cache = i.cache
      /\ k.cursor = None /\ ~k.real
  BY <1>1, OwnedFields DEF Sound
<1>3. p \in Ime!Keys /\ i.cache[p] \in Rects \cup {None}
  BY DEF Sound, Ime!BridgeState, Ime!Keys
<1>4. i.cache[p] # None => caret \in Ime!Carets /\ caret # None /\ caret.rect = i.cache[p]
  BY <1>3, AtIsCaret
<1>5. j = IF i.cache[p] = None THEN [k EXCEPT !.settling = TRUE]
          ELSE [[k EXCEPT !.settling = TRUE] EXCEPT !.cursor = caret, !.real = TRUE]
  BY <1>1 DEF Ime!DbusOwned
<1> HIDE DEF o, k, j, caret
<1>6. /\ j \in Ime!BridgeState /\ j.owner = o /\ j.focused = i.focused
      /\ j.cache = i.cache
      /\ i.cache[p] = None => ~j.real
      /\ i.cache[p] # None => j.cursor = caret
  BY <1>2, <1>4, <1>5 DEF Ime!BridgeState
<1>7. Ime!Key(j.owner) = p
  BY <1>1, <1>6, OwnerKinds
<1>8. Sound(j, rep, rect)
  BY <1>1, <1>3, <1>4, <1>6, <1>7 DEF Sound
<1> QED
  BY <1>6, <1>8 DEF j, o

\* set_owner keeps a bridge sound, and makes the one it is given the owner.
LEMMA SetOwnerSound ==
  ASSUME NEW i, NEW rep, NEW rect \in Rects \cup {None}, NEW o \in Ime!Owners,
         Sound(i, rep, rect)
  PROVE  LET j == Ime!SetOwner(i, o, rect) IN
         /\ Sound(j, rep, rect) /\ j.focused = i.focused
         /\ j.owner.kind = o.kind
         /\ o.kind = "tip" => j.owner.surface = o.surface
         /\ o.kind = "dbus" => j.owner.ic = o.ic
<1>0. i.owner \in Ime!Owners
  BY DEF Sound, Ime!BridgeState
<1>1. CASE Ime!Key(o) = Ime!Key(i.owner)
  BY <1>0, <1>1, KeyTells DEF Ime!SetOwner
<1>2. CASE Ime!Key(o) # Ime!Key(i.owner)
  <2>1. CASE o.kind = "none"
    <3>0. Ime!Nobody \in Ime!Owners
      BY DEF Ime!Owners
    <3>1. Ime!SetOwner(i, o, rect) = Ime!Owned(i, Ime!Nobody)
      BY <1>2, <2>1 DEF Ime!SetOwner
    <3>2. /\ Sound(Ime!Owned(i, Ime!Nobody), rep, rect)
          /\ Ime!Owned(i, Ime!Nobody).owner = Ime!Nobody
          /\ Ime!Owned(i, Ime!Nobody).focused = i.focused
      BY <3>0, OwnedSound, OwnedFields DEF Sound
    <3> QED
      BY <2>1, <3>1, <3>2, OwnerKinds
  <2>2. CASE o.kind = "tip"
    <3>1. o.surface \in Surfaces /\ o = Ime!Tip(o.surface)
      BY <2>2, OwnerKinds
    <3>2. Ime!SetOwner(i, o, rect) = Ime!TipOwned(i, o.surface, rect)
      BY <1>2, <2>2 DEF Ime!SetOwner
    <3> QED
      BY <2>2, <3>1, <3>2, TipOwnedSound
  <2>3. CASE o.kind = "dbus"
    <3>1. o.ic \in Paths /\ o.origin \in Surfaces \cup {None} /\ o = Ime!Dbus(o.ic, o.origin)
      BY <2>3 DEF Ime!Owners, Ime!Nobody, Ime!Tip, Ime!Dbus
    <3>2. Ime!SetOwner(i, o, rect) = Ime!DbusOwned(i, Ime!Dbus(o.ic, o.origin))
      BY <1>2, <2>3, <3>1 DEF Ime!SetOwner
    <3> QED
      BY <2>3, <3>1, <3>2, DbusOwnedSound
  <2> QED
    BY <2>1, <2>2, <2>3, OwnerKinds
<1> QED
  BY <1>1, <1>2

LEMMA ReportDbusSound ==
  ASSUME NEW i, NEW rep, NEW rect, NEW p \in Paths, NEW r \in Rects,
         Sound(i, rep, rect), <<p, r>> \in rep
  PROVE  LET j == Ime!ReportDbus(i, p, r) IN
         Sound(j, rep, rect) /\ j.owner = i.owner /\ j.focused = i.focused
<1> DEFINE j == Ime!ReportDbus(i, p, r)
           caret == Ime!At(i.owner.origin, r)
<1>1. CASE ~Ime!Owns(i, p) \/ (i.received /\ i.settling)
  BY <1>1 DEF Ime!ReportDbus
<1>2. CASE Ime!Owns(i, p) /\ ~(i.received /\ i.settling)
  <2>1. i \in Ime!BridgeState /\ i.owner \in Ime!Owners
    BY DEF Sound, Ime!BridgeState
  <2>2. i.owner.kind = "dbus" /\ i.owner.ic = p /\ Ime!Key(i.owner) = p
        /\ i.owner.origin \in Surfaces \cup {None}
    BY <1>2, <2>1, OwnerKinds DEF Ime!Owns
  <2>3. caret \in Ime!Carets /\ caret # None /\ caret.rect = r
    BY <2>2, AtIsCaret
  <2>4. j = [i EXCEPT !.cursor = caret, !.real = TRUE, !.received = TRUE, !.cache[p] = r]
    BY <1>2 DEF Ime!ReportDbus
  <2>5. p \in Ime!Keys /\ p # None /\ r # None
    BY NamesAssumption DEF Ime!Keys
  <2> HIDE DEF j, caret
  <2>6. j = [[[[i EXCEPT !.cursor = caret] EXCEPT !.real = TRUE] EXCEPT !.received = TRUE]
               EXCEPT !.cache = [i.cache EXCEPT ![p] = r]]
    BY <2>1, <2>4 DEF Ime!BridgeState
  <2>7. /\ j \in Ime!BridgeState /\ j.owner = i.owner /\ j.focused = i.focused
        /\ j.cursor = caret /\ j.cache = [i.cache EXCEPT ![p] = r] /\ j.snapshot = i.snapshot
    BY <2>1, <2>3, <2>5, <2>6 DEF Ime!BridgeState
  <2>8. \A k \in Ime!Keys : j.cache[k] # None => <<k, j.cache[k]>> \in rep
    BY <2>1, <2>5, <2>7 DEF Sound, Ime!BridgeState
  <2>9. Sound(j, rep, rect)
    BY <2>2, <2>3, <2>7, <2>8 DEF Sound
  <2> QED
    BY <2>7, <2>9 DEF j
<1> QED
  BY <1>1, <1>2

LEMMA ReportTipSound ==
  ASSUME NEW i, NEW rep, NEW rect \in Rects \cup {None}, Sound(i, rep, rect)
  PROVE  LET j == Ime!ReportTip(i, rect) IN
         Sound(j, rep, rect) /\ j.owner = i.owner /\ j.focused = i.focused
<1> DEFINE j == Ime!ReportTip(i, rect)
           s == i.owner.surface
           caret == Ime!At(s, rect)
<1>1. CASE i.owner.kind # "tip" \/ rect \in {None, i.snapshot}
  BY <1>1 DEF Ime!ReportTip
<1>2. CASE i.owner.kind = "tip" /\ rect \notin {None, i.snapshot}
  <2>1. i \in Ime!BridgeState /\ i.owner \in Ime!Owners
    BY DEF Sound, Ime!BridgeState
  <2>2. s \in Surfaces /\ Ime!Key(i.owner) = s
    BY <1>2, <2>1, OwnerKinds
  <2>3. caret \in Ime!Carets /\ caret # None /\ caret.rect = rect
    BY <1>2, <2>2, AtIsCaret
  <2>4. j = [i EXCEPT !.snapshot = rect, !.cursor = caret, !.real = TRUE, !.cache[s] = rect]
    BY <1>2 DEF Ime!ReportTip
  <2>5. s \in Ime!Keys /\ <<s, rect>> \in rep
    BY <1>2, <2>2 DEF Ime!Keys, Sound
  <2> HIDE DEF j, caret, s
  <2>6. j = [[[[i EXCEPT !.snapshot = rect] EXCEPT !.cursor = caret] EXCEPT !.real = TRUE]
               EXCEPT !.cache = [i.cache EXCEPT ![s] = rect]]
    BY <2>1, <2>4 DEF Ime!BridgeState
  <2>7. /\ j \in Ime!BridgeState /\ j.owner = i.owner /\ j.focused = i.focused
        /\ j.cursor = caret /\ j.cache = [i.cache EXCEPT ![s] = rect] /\ j.snapshot = rect
    BY <2>1, <2>3, <2>5, <2>6 DEF Ime!BridgeState
  <2>8. \A k \in Ime!Keys : j.cache[k] # None => <<k, j.cache[k]>> \in rep
    BY <2>1, <2>5, <2>7 DEF Sound, Ime!BridgeState
  <2>9. Sound(j, rep, rect)
    BY <2>2, <2>3, <2>5, <2>7, <2>8 DEF Sound
  <2> QED
    BY <2>7, <2>9 DEF j
<1> QED
  BY <1>1, <1>2

\* More may have been reported.
LEMMA SoundWithMore ==
  ASSUME NEW i, NEW rep, NEW more, NEW rect, Sound(i, rep, rect), rep \subseteq more
  PROVE  Sound(i, more, rect)
BY DEF Sound

\* What an fcitx event leaves: an owner by D-Bus afterwards was it before, or
\* is the context of the event, which has the focus.
LEMMA OnFcitxEventSound ==
  ASSUME NEW i, NEW rep, NEW rect \in Rects \cup {None}, NEW origin \in Surfaces \cup {None},
         NEW e \in FcitxEvents, Sound(i, rep, rect),
         e.kind = "rect" => <<e.ic, e.rect>> \in rep
  PROVE  LET j == Ime!OnFcitxEvent(i, e, origin, rect) IN
         /\ Sound(j, rep, rect) /\ j.focused = i.focused
         /\ j.owner.kind = "tip" => i.owner.kind = "tip" /\ j.owner.surface = i.owner.surface
         /\ j.owner.kind = "dbus" =>
              \/ e.kind = "focus" /\ e.on /\ j.owner.ic = e.ic
              \/ j.owner.ic = i.owner.ic /\ i.owner.kind = "dbus"
                   /\ (e.kind = "rect" \/ i.owner.ic # e.ic)
<1> DEFINE j == Ime!OnFcitxEvent(i, e, origin, rect)
           freed == IF Ime!Owns(i, e.ic) THEN Ime!Owned(i, Ime!Nobody) ELSE i
<1>0. i \in Ime!BridgeState /\ e.ic \in Paths
  BY DEF Sound, FcitxEvents
<1>1. /\ Sound(freed, rep, rect) /\ freed.focused = i.focused
      /\ freed.owner.kind = "tip" => i.owner = freed.owner
      /\ freed.owner.kind = "dbus" => i.owner = freed.owner /\ i.owner.ic # e.ic
  <2>1. CASE Ime!Owns(i, e.ic)
    <3>1. Ime!Nobody \in Ime!Owners /\ Ime!Nobody.kind = "none"
      BY DEF Ime!Owners, Ime!Nobody
    <3> QED
      BY <1>0, <2>1, <3>1, OwnedSound, OwnedFields
  <2>2. CASE ~Ime!Owns(i, e.ic)
    BY <2>2 DEF Ime!Owns
  <2> QED
    BY <2>1, <2>2
<1>2. CASE e.kind = "focus" /\ e.on
  <2>1. j = Ime!SetOwner(i, Ime!Dbus(e.ic, origin), rect)
    BY <1>2 DEF Ime!OnFcitxEvent
  <2>2. /\ Ime!Dbus(e.ic, origin) \in Ime!Owners /\ Ime!Dbus(e.ic, origin).kind = "dbus"
        /\ Ime!Dbus(e.ic, origin).ic = e.ic
    BY <1>0 DEF Ime!Owners, Ime!Dbus
  <2> HIDE DEF j
  <2>3. Sound(j, rep, rect) /\ j.focused = i.focused /\ j.owner.kind = "dbus" /\ j.owner.ic = e.ic
    BY <2>1, <2>2, SetOwnerSound
  <2> QED
    BY <1>2, <2>3 DEF j
<1>3. CASE e.kind = "focus" /\ ~e.on
  <2>1. j = freed
    BY <1>3 DEF Ime!OnFcitxEvent
  <2> HIDE DEF j, freed
  <2>2. /\ Sound(j, rep, rect) /\ j.focused = i.focused
        /\ j.owner.kind = "tip" => i.owner.kind = "tip" /\ j.owner.surface = i.owner.surface
        /\ j.owner.kind = "dbus" => j.owner.ic = i.owner.ic /\ i.owner.kind = "dbus" /\ i.owner.ic # e.ic
    BY <1>1, <2>1
  <2> QED
    BY <2>2 DEF j
<1>4. CASE e.kind = "rect"
  <2>1. j = Ime!ReportDbus(i, e.ic, e.rect)
    BY <1>4 DEF Ime!OnFcitxEvent
  <2>2. e.rect \in Rects /\ <<e.ic, e.rect>> \in rep
    BY <1>4 DEF FcitxEvents
  <2> HIDE DEF j
  <2>3. Sound(j, rep, rect) /\ j.focused = i.focused /\ j.owner = i.owner
    BY <1>0, <2>1, <2>2, ReportDbusSound
  <2> QED
    BY <1>4, <2>3 DEF j
<1>5. CASE e.kind = "destroyed"
  <2>1. j = [freed EXCEPT !.cache[e.ic] = None]
    BY <1>5 DEF Ime!OnFcitxEvent
  <2>2. freed \in Ime!BridgeState /\ e.ic \in Ime!Keys
    BY <1>0, <1>1 DEF Sound, Ime!Keys
  <2> HIDE DEF j, freed
  <2>3. j = [freed EXCEPT !.cache = [freed.cache EXCEPT ![e.ic] = None]]
    BY <2>1, <2>2 DEF Ime!BridgeState
  <2>4. /\ j \in Ime!BridgeState /\ j.owner = freed.owner /\ j.focused = freed.focused
        /\ j.cursor = freed.cursor /\ j.real = freed.real /\ j.snapshot = freed.snapshot
        /\ j.cache = [freed.cache EXCEPT ![e.ic] = None]
    BY <2>2, <2>3 DEF Ime!BridgeState
  <2>5. \A k \in Ime!Keys : j.cache[k] # None => <<k, j.cache[k]>> \in rep
    BY <1>1, <2>2, <2>4 DEF Sound, Ime!BridgeState
  <2>6. Sound(j, rep, rect)
    BY <1>1, <2>4, <2>5 DEF Sound
  <2>7. /\ j.owner.kind = "tip" => i.owner.kind = "tip" /\ j.owner.surface = i.owner.surface
        /\ j.owner.kind = "dbus" => j.owner.ic = i.owner.ic /\ i.owner.kind = "dbus" /\ i.owner.ic # e.ic
        /\ j.focused = i.focused
    BY <1>1, <2>4
  <2> QED
    BY <2>6, <2>7 DEF j
<1>6. \/ e.kind = "focus" /\ e.on \in BOOLEAN
      \/ e.kind = "rect" \/ e.kind = "destroyed"
  BY DEF FcitxEvents
<1> QED
  BY <1>2, <1>3, <1>4, <1>5, <1>6
\* A change of what has the focus alone
LEMMA FocusedSound ==
  ASSUME NEW i, NEW rep, NEW rect, NEW new \in Surfaces \cup {None}, Sound(i, rep, rect)
  PROVE  LET j == [i EXCEPT !.focused = new] IN
         Sound(j, rep, rect) /\ j.focused = new /\ j.owner = i.owner
<1> DEFINE j == [i EXCEPT !.focused = new]
<1>1. i \in Ime!BridgeState
  BY DEF Sound
<1>2. /\ j \in Ime!BridgeState /\ j.focused = new /\ j.owner = i.owner /\ j.cursor = i.cursor
      /\ j.real = i.real /\ j.snapshot = i.snapshot /\ j.cache = i.cache
  BY <1>1 DEF Ime!BridgeState
<1> HIDE DEF j
<1>3. Sound(j, rep, rect)
  BY <1>2 DEF Sound
<1> QED
  BY <1>2, <1>3 DEF j

\* reset_on_workspace_switch leaves nothing that was reported.
LEMMA ResetSound ==
  ASSUME NEW i, NEW rep, NEW rect, Sound(i, rep, rect)
  PROVE  /\ Sound(Ime!Reset(i), {}, rect) /\ Ime!Reset(i).focused = None
         /\ Ime!Reset(i).owner.kind = "none"
<1> DEFINE k == Ime!Owned(i, Ime!Nobody)
           j == Ime!Reset(i)
<1>1. Ime!Nobody \in Ime!Owners /\ Ime!Nobody.kind = "none"
  BY DEF Ime!Owners, Ime!Nobody
<1>2. k \in Ime!BridgeState /\ k.owner = Ime!Nobody /\ ~k.real
  BY <1>1, OwnedFields DEF Sound
<1>3. j = [[k EXCEPT !.focused = None] EXCEPT !.cache = [l \in Ime!Keys |-> None]]
  BY DEF Ime!Reset
<1> HIDE DEF k, j
<1>4. /\ j \in Ime!BridgeState /\ j.owner = Ime!Nobody /\ ~j.real /\ j.focused = None
      /\ j.cache = [l \in Ime!Keys |-> None]
  BY <1>2, <1>3 DEF Ime!BridgeState
<1>5. Sound(j, {}, rect)
  BY <1>1, <1>4 DEF Sound
<1> QED
  BY <1>1, <1>4, <1>5 DEF j

TiType == [focus : Surfaces \cup {None}, rect : Rects \cup {None}]

\* on_focus_changed, from whatever the caller leaves
LEMMA FocusOnSound ==
  ASSUME NEW i, NEW rep, NEW new \in Surfaces \cup {None}, Ime!FocusOn(i, new),
         ti \in TiType, bound \subseteq Surfaces,
         Sound(i, rep, ti.rect), i.focused = new => new = None
  PROVE  /\ Sound(ime', rep, ti'.rect) /\ ti' \in TiType
         /\ kbFocus' = new /\ ime'.focused = new
         /\ new # None => ti'.focus = new
         /\ ime'.owner.kind = "tip" => ime'.owner.surface = new
         /\ ime'.owner.kind # "dbus"
<1> DEFINE j == [i EXCEPT !.focused = new]
           o == IF new \in bound THEN Ime!Tip(new) ELSE Ime!Nobody
<1>1. ime' = Ime!SetOwner(j, o, ti.rect) /\ kbFocus' = new
  BY DEF Ime!FocusOn
<1>2. /\ ti' \in TiType /\ ti'.rect = ti.rect
      /\ new # None => ti'.focus = new
  BY DEF Ime!FocusOn, Ime!Transition, TiType
<1>3. Sound(j, rep, ti.rect) /\ j.focused = new
  BY FocusedSound
<1>4. /\ o \in Ime!Owners /\ o.kind # "dbus"
      /\ o.kind = "tip" => o.surface = new
  BY DEF Ime!Owners, Ime!Tip, Ime!Nobody
<1>5. ti.rect \in Rects \cup {None}
  BY DEF TiType
<1> HIDE DEF j, o
<1>6. LET b == Ime!SetOwner(j, o, ti.rect) IN
      /\ Sound(b, rep, ti.rect) /\ b.focused = j.focused /\ b.owner.kind = o.kind
      /\ o.kind = "tip" => b.owner.surface = o.surface
  BY <1>3, <1>4, <1>5, SetOwnerSound
<1> QED
  BY <1>1, <1>2, <1>3, <1>4, <1>6

\* The second half of the tick: a client that bound text-input late, and the
\* handle's caret
LEMMA PolledSound ==
  ASSUME NEW i, NEW rep, ti \in TiType, bound \subseteq Surfaces, Sound(i, rep, ti.rect),
         i.owner.kind = "tip" => i.owner.surface = i.focused
  PROVE  LET j == Ime!ReportTip(Ime!LateBind(i), ti.rect) IN
         /\ Sound(j, rep, ti.rect) /\ j.focused = i.focused
         /\ j.owner.kind = "tip" => j.owner.surface = i.focused
         /\ j.owner.kind = "dbus" => i.owner.kind = "dbus" /\ j.owner.ic = i.owner.ic
<1> DEFINE k == Ime!LateBind(i)
<1>0. ti.rect \in Rects \cup {None} /\ i.focused \in Surfaces \cup {None}
  BY DEF TiType, Sound, Ime!BridgeState
<1>1. /\ Sound(k, rep, ti.rect) /\ k.focused = i.focused
      /\ k.owner.kind = "tip" => k.owner.surface = i.focused
      /\ k.owner.kind = "dbus" => i.owner.kind = "dbus" /\ k.owner.ic = i.owner.ic
  <2>1. CASE i.owner.kind = "none" /\ i.focused # None /\ ti.focus \in bound
    <3>1. k = Ime!SetOwner(i, Ime!Tip(i.focused), ti.rect)
      BY <2>1 DEF Ime!LateBind
    <3>2. /\ Ime!Tip(i.focused) \in Ime!Owners /\ Ime!Tip(i.focused).kind = "tip"
          /\ Ime!Tip(i.focused).surface = i.focused
      BY <1>0, <2>1 DEF Ime!Owners, Ime!Tip
    <3> HIDE DEF k
    <3> QED
      BY <1>0, <3>1, <3>2, SetOwnerSound
  <2>2. CASE ~(i.owner.kind = "none" /\ i.focused # None /\ ti.focus \in bound)
    BY <2>2 DEF Ime!LateBind
  <2> QED
    BY <2>1, <2>2
<1> HIDE DEF k
<1>2. LET j == Ime!ReportTip(k, ti.rect) IN
      Sound(j, rep, ti.rect) /\ j.owner = k.owner /\ j.focused = k.focused
  BY <1>0, <1>1, ReportTipSound
<1> QED
  BY <1>1, <1>2 DEF k

----------------------------------------------------------------------------
(* Steps of the bridge *)

\* The carets the bridge may have been told of
Known == reported \cup sent \cup late

ImeInv ==
  /\ Sound(ime, Known, ti.rect)
  /\ ti \in TiType /\ bound \subseteq Surfaces /\ kbFocus \in Surfaces \cup {None}
  /\ forgotten \in BOOLEAN
  /\ Ime!OwnerHasKeyboard
  /\ applied \in [allowed : BOOLEAN, area : Ime!Carets \cup {None}]
  /\ host \in [allowed : BOOLEAN, area : Ime!Carets \cup {None}]
  /\ host.allowed = applied.allowed
  /\ host.allowed => host.area = applied.area /\ host.area # None

\* More carets are known, and nothing else changes.
LEMMA ImeKept ==
  ASSUME ImeInv, UNCHANGED imVars, Known \subseteq Known'
  PROVE  ImeInv' /\ ime' = ime
<1>1. Sound(ime, Known', ti.rect)
  BY SoundWithMore DEF ImeInv
<1> QED
  BY <1>1 DEF ImeInv, imVars, Ime!OwnerHasKeyboard

LEMMA FocusStep ==
  ASSUME ImeInv, UNCHANGED sentVars, NEW s \in Surfaces \cup {None}, Ime!FocusChanged(s)
  PROVE  ImeInv' /\ ime'.owner.kind # "dbus"
<1>1. /\ Ime!FocusOn(ime, s) /\ s # kbFocus /\ forgotten' = FALSE
      /\ UNCHANGED <<applied, bound, host, reported>>
  BY DEF Ime!FocusChanged, Ime!FocusOn
<1>2. Known' = Known
  BY <1>1 DEF Known, sentVars
<1>3. /\ Sound(ime, Known, ti.rect) /\ (ime.focused = s => s = None)
      /\ ti \in TiType /\ bound \subseteq Surfaces
  BY <1>1 DEF ImeInv, Ime!OwnerHasKeyboard
<1>4. /\ Sound(ime', Known, ti'.rect) /\ ti' \in TiType
      /\ kbFocus' = s /\ ime'.focused = s
      /\ s # None => ti'.focus = s
      /\ ime'.owner.kind = "tip" => ime'.owner.surface = s
      /\ ime'.owner.kind # "dbus"
  BY <1>1, <1>3, FocusOnSound
<1> QED
  BY <1>1, <1>2, <1>4 DEF ImeInv, Ime!OwnerHasKeyboard

\* A switch of workspaces, whatever is known after it: nothing of it is used.
LEMMA SwitchStep ==
  ASSUME ImeInv, NEW s \in Surfaces \cup {None}, Ime!SwitchWorkspace(s)
  PROVE  ImeInv' /\ ime'.owner.kind # "dbus"
<1>1. UNCHANGED <<applied, bound, host>>
  BY DEF Ime!SwitchWorkspace
<1>2. /\ Sound(Ime!Reset(ime), {}, ti.rect) /\ Ime!Reset(ime).focused = None
      /\ Ime!Reset(ime).owner.kind = "none"
      /\ ti \in TiType /\ bound \subseteq Surfaces
  BY ResetSound DEF ImeInv
<1>3. CASE s = kbFocus
  <2>1. ime' = Ime!Reset(ime) /\ forgotten' = (s # None) /\ UNCHANGED <<ti, kbFocus>>
    BY <1>3 DEF Ime!SwitchWorkspace
  <2>2. Sound(ime', Known', ti'.rect)
    BY <1>2, <2>1, SoundWithMore
  <2>3. Ime!OwnerHasKeyboard'
    BY <1>2, <1>3, <2>1 DEF ImeInv, Ime!OwnerHasKeyboard
  <2> QED
    BY <1>1, <1>2, <2>1, <2>2, <2>3 DEF ImeInv
<1>4. CASE s # kbFocus
  <2>1. Ime!FocusOn(Ime!Reset(ime), s) /\ forgotten' = FALSE
    BY <1>4 DEF Ime!SwitchWorkspace, Ime!FocusOn
  <2>2. /\ Sound(ime', {}, ti'.rect) /\ ti' \in TiType
        /\ kbFocus' = s /\ ime'.focused = s
        /\ s # None => ti'.focus = s
        /\ ime'.owner.kind = "tip" => ime'.owner.surface = s
        /\ ime'.owner.kind # "dbus"
    BY <1>2, <2>1, FocusOnSound
  <2>3. Sound(ime', Known', ti'.rect)
    BY <2>2, SoundWithMore
  <2> QED
    BY <1>1, <2>1, <2>2, <2>3 DEF ImeInv, Ime!OwnerHasKeyboard
<1> QED
  BY <1>3, <1>4

LEMMA ClientSteps ==
  ASSUME ImeInv, UNCHANGED sentVars,
         NEW s \in Surfaces, Ime!Bind(s) \/ \E r \in Rects : Ime!SetCaret(s, r)
  PROVE  ImeInv' /\ ime' = ime
<1>1. CASE Ime!Bind(s)
  <2>1. bound' = bound \cup {s} /\ UNCHANGED <<ime, applied, ti, kbFocus, host, reported, forgotten>>
    BY <1>1 DEF Ime!Bind
  <2>2. Known' = Known
    BY <2>1 DEF Known, sentVars
  <2> QED
    BY <2>1, <2>2 DEF ImeInv, Ime!OwnerHasKeyboard
<1>2. ASSUME NEW r \in Rects, Ime!SetCaret(s, r) PROVE ImeInv' /\ ime' = ime
  <2>1. /\ ti.focus = s /\ ti' = [ti EXCEPT !.rect = r] /\ reported' = reported \cup {<<s, r>>}
        /\ UNCHANGED <<ime, applied, bound, kbFocus, host, forgotten>>
    BY <1>2 DEF Ime!SetCaret
  <2>2. ti' \in TiType /\ ti'.rect = r /\ ti'.focus = s
    BY <2>1 DEF ImeInv, TiType
  <2>3. ime.owner.kind = "tip" => ime.owner.surface = s
    <3>1. ime.owner.kind = "tip" => ime.owner.surface \in Surfaces
      BY OwnerKinds DEF ImeInv, Sound, Ime!BridgeState
    <3> QED
      BY <2>1, <3>1, NamesAssumption DEF ImeInv, Ime!OwnerHasKeyboard
  <2>4. Sound(ime, Known', r)
    <3>1. Known' = Known \cup {<<s, r>>}
      BY <2>1 DEF Known, sentVars
    <3> QED
      BY <2>3, <3>1 DEF ImeInv, Sound
  <2>5. Ime!OwnerHasKeyboard'
    BY <2>1, <2>2 DEF ImeInv, Ime!OwnerHasKeyboard
  <2> QED
    BY <2>1, <2>2, <2>4, <2>5 DEF ImeInv
<1> QED
  BY <1>1, <1>2

LEMMA TipSteps ==
  ASSUME ImeInv, UNCHANGED sentVars, Ime!HostEvent \/ Ime!HostText \/ Ime!PollTip
  PROVE  /\ ImeInv'
         /\ ime'.owner.kind = "dbus" => ime.owner.kind = "dbus" /\ ime'.owner.ic = ime.owner.ic
<1>0. UNCHANGED <<applied, ti, bound, kbFocus, host, forgotten>> /\ Known' = Known
  BY DEF Ime!HostEvent, Ime!HostText, Ime!PollTip, Known, sentVars
<1>1. /\ Sound(ime, Known, ti.rect) /\ ti \in TiType /\ ti.rect \in Rects \cup {None}
      /\ bound \subseteq Surfaces /\ (ime.owner.kind = "tip" => ime.owner.surface = ime.focused)
  BY DEF ImeInv, TiType, Ime!OwnerHasKeyboard
<1>2. /\ Sound(ime', Known, ti.rect) /\ ime'.focused = ime.focused
      /\ ime'.owner.kind = "tip" => ime'.owner.surface = ime.focused
      /\ ime'.owner.kind = "dbus" => ime.owner.kind = "dbus" /\ ime'.owner.ic = ime.owner.ic
  <2>1. CASE ime' = Ime!ReportTip(ime, ti.rect)
    BY <1>1, <2>1, ReportTipSound
  <2>2. CASE ime' = Ime!ReportTip(Ime!LateBind(ime), ti.rect)
    BY <1>1, <2>2, PolledSound
  <2> QED
    BY <2>1, <2>2 DEF Ime!HostEvent, Ime!HostText, Ime!PollTip
<1>3. ime'.owner.kind = "tip" => ime'.owner.surface \in Surfaces
  BY <1>2, OwnerKinds DEF Sound, Ime!BridgeState
<1>4. ime'.owner.kind = "tip" => ime.focused = kbFocus /\ ~forgotten
  BY <1>2, <1>3, NamesAssumption DEF ImeInv, Ime!OwnerHasKeyboard
<1> QED
  BY <1>0, <1>2, <1>4 DEF ImeInv, Ime!OwnerHasKeyboard

LEMMA SettleStep ==
  ASSUME ImeInv, UNCHANGED sentVars, Ime!SettleElapses
  PROVE  ImeInv' /\ ime'.owner = ime.owner
<1>1. /\ ime' = [ime EXCEPT !.settling = FALSE]
      /\ UNCHANGED <<applied, ti, bound, kbFocus, host, forgotten>> /\ Known' = Known
  BY DEF Ime!SettleElapses, Known, sentVars
<1>2. /\ ime' \in Ime!BridgeState /\ ime'.owner = ime.owner /\ ime'.cursor = ime.cursor
      /\ ime'.real = ime.real /\ ime'.cache = ime.cache /\ ime'.snapshot = ime.snapshot
      /\ ime'.focused = ime.focused
  BY <1>1 DEF ImeInv, Sound, Ime!BridgeState
<1>3. Sound(ime', Known, ti.rect)
  BY <1>2 DEF ImeInv, Sound
<1> QED
  BY <1>1, <1>2, <1>3 DEF ImeInv, Ime!OwnerHasKeyboard

\* sync_to_winit: the host is told where the caret is whenever its input
\* method is on.
LEMMA SyncStep ==
  ASSUME ImeInv, UNCHANGED sentVars, Ime!Sync \/ Ime!HostBlinks
  PROVE  ImeInv' /\ ime' = ime
<1>1. CASE Ime!HostBlinks
  BY <1>1, ImeKept DEF Ime!HostBlinks, ImeInv, Ime!OwnerHasKeyboard, Known, sentVars
<1>2. CASE Ime!Sync
  <2> DEFINE pushed == ime.cursor # None /\ (ime.cursor # applied.area \/ Ime!Resent)
             area == IF Ime!Toggled /\ Ime!Wanted THEN None ELSE host.area
  <2>1. /\ applied' = [allowed |-> Ime!Wanted, area |-> IF pushed THEN ime.cursor ELSE applied.area]
        /\ host' = [allowed |-> Ime!Wanted, area |-> IF pushed THEN ime.cursor ELSE area]
        /\ UNCHANGED <<ime, ti, bound, kbFocus, forgotten>> /\ Known' = Known
    BY <1>2 DEF Ime!Sync, Known, sentVars
  <2>2. ime.owner \in Ime!Owners /\ ime.real \in BOOLEAN /\ ime.cursor \in Ime!Carets \cup {None}
    BY DEF ImeInv, Sound, Ime!BridgeState
  <2>3. Ime!Wanted \in BOOLEAN /\ (Ime!Wanted => ime.cursor # None)
    <3>1. ime.owner.kind \in {"none", "tip", "dbus"}
      BY <2>2, OwnerKinds
    <3>2. ime.owner.kind = "tip" \/ ime.real => ime.cursor # None
      BY DEF ImeInv, Sound
    <3> QED
      BY <2>2, <3>1, <3>2 DEF Ime!Wanted
  <2>4. /\ host.allowed = applied.allowed /\ host.allowed \in BOOLEAN
        /\ applied.area \in Ime!Carets \cup {None} /\ host.area \in Ime!Carets \cup {None}
        /\ host.allowed => host.area = applied.area /\ host.area # None
    BY DEF ImeInv
  <2>5. Ime!Wanted /\ ~pushed => host.allowed
    BY <2>3, <2>4 DEF Ime!Resent, Ime!Toggled
  <2>6. Ime!Wanted /\ ~pushed => area = host.area
    BY <2>4, <2>5 DEF Ime!Toggled
  <2>7. area \in Ime!Carets \cup {None}
    BY <2>4
  <2> HIDE DEF pushed, area
  <2>8. /\ applied' \in [allowed : BOOLEAN, area : Ime!Carets \cup {None}]
        /\ host' \in [allowed : BOOLEAN, area : Ime!Carets \cup {None}]
        /\ host'.allowed = applied'.allowed
    BY <2>1, <2>2, <2>3, <2>4, <2>7
  <2>9. host'.allowed => host'.area = applied'.area /\ host'.area # None
    BY <2>1, <2>3, <2>4, <2>5, <2>6
  <2> QED
    BY <2>1, <2>8, <2>9 DEF ImeInv, Ime!OwnerHasKeyboard
<1> QED
  BY <1>1, <1>2

LEMMA EventStep ==
  ASSUME ImeInv, UNCHANGED sentVars, NEW e \in FcitxEvents, Ime!FcitxEvent(e),
         e.kind = "rect" => <<e.ic, e.rect>> \in Known
  PROVE  /\ ImeInv'
         /\ ime'.owner.kind = "dbus" =>
              \/ e.kind = "focus" /\ e.on /\ ime'.owner.ic = e.ic
              \/ ime'.owner.ic = ime.owner.ic /\ ime.owner.kind = "dbus"
                   /\ (e.kind = "rect" \/ ime.owner.ic # e.ic)
<1>1. /\ ime' = Ime!OnFcitxEvent(ime, e, kbFocus, ti.rect) /\ Known' = Known
      /\ UNCHANGED <<applied, ti, bound, kbFocus, host, forgotten>>
  BY DEF Ime!FcitxEvent, Ime!Origin, Known, sentVars
<1>2. /\ Sound(ime, Known, ti.rect)
      /\ ti.rect \in Rects \cup {None} /\ kbFocus \in Surfaces \cup {None}
  BY DEF ImeInv, TiType
<1> DEFINE j == Ime!OnFcitxEvent(ime, e, kbFocus, ti.rect)
<1>3. /\ Sound(j, Known, ti.rect) /\ j.focused = ime.focused
      /\ j.owner.kind = "tip" => ime.owner.kind = "tip" /\ j.owner.surface = ime.owner.surface
      /\ j.owner.kind = "dbus" =>
           \/ e.kind = "focus" /\ e.on /\ j.owner.ic = e.ic
           \/ j.owner.ic = ime.owner.ic /\ ime.owner.kind = "dbus"
                /\ (e.kind = "rect" \/ ime.owner.ic # e.ic)
  BY <1>2, OnFcitxEventSound
<1> HIDE DEF j
<1>4. ime' = j
  BY <1>1 DEF j
<1> QED
  BY <1>1, <1>3, <1>4 DEF ImeInv, Ime!OwnerHasKeyboard

----------------------------------------------------------------------------
(* Steps of the whole *)

LinkInv ==
  /\ batch \in Seq(FcitxEvents)
  /\ connected \in BOOLEAN
  /\ half \in {"events", "handling", "rest"}
  /\ wantsIme \subseteq Paths
  /\ DbusOwnerWantsIme

\* The notices whose caret, if they tell one, is known
Told == {n \in Notices : n.kind = "rect" => <<n.ic, n.rect>> \in Known}

\* What is on its way from the router to the bridge; the tick finishes the
\* events it has taken before anything else happens on the main thread.
ChannelInv ==
  /\ notices \in Seq(Told) /\ batch \in Seq(Told)
  /\ half # "handling" => batch = <<>>

Inv == RouterTypes /\ ImeInv /\ LinkInv /\ ChannelInv

LEMMA ToldGrows ==
  ASSUME Known \subseteq Known', NEW q \in Seq(Told)
  PROVE  q \in Seq(Told')
<1>1. Told \subseteq Told'
  BY DEF Told
<1> QED
  BY <1>1

LEMMA ChannelKept ==
  ASSUME ChannelInv, UNCHANGED <<notices, batch, half>>, Known \subseteq Known'
  PROVE  ChannelInv'
BY ToldGrows DEF ChannelInv

\* After a switch, what is in the channel is late.
LEMMA ChannelSwitched ==
  ASSUME RouterTypes, ChannelInv, half = "events", Switch, UNCHANGED linkVars
  PROVE  ChannelInv'
<1>1. notices \in Seq(Notices) /\ batch = <<>>
  BY DEF RouterTypes, ChannelInv
<1>2. /\ UNCHANGED <<notices, batch, half>> /\ late' = CaretsAfter(0, notices)
  BY DEF Switch, routerVars, linkVars
<1>3. \A i \in 1 .. Len(notices) : notices[i] \in Told'
  <2> SUFFICES ASSUME NEW i \in 1 .. Len(notices) PROVE notices[i] \in Told'
    OBVIOUS
  <2>1. notices[i] \in Notices
    BY <1>1
  <2>2. notices[i].kind = "rect" => <<notices[i].ic, notices[i].rect>> \in CaretsAfter(0, notices)
    BY DEF CaretsAfter
  <2> QED
    BY <1>2, <2>1, <2>2 DEF Told, Known
<1>4. notices \in Seq(Told')
  BY <1>1, <1>3
<1> QED
  BY <1>1, <1>2, <1>4, EmptySeq DEF ChannelInv

\* The router's threads add to the end of the channel.
LEMMA NoticesGrow ==
  ASSUME RouterTypes, Router
  PROVE  notices' = notices \/ \E ns \in Seq(Notices) : notices' = notices \o ns
<1>0. notices \in Seq(Notices) /\ (\A n \in Notices : <<n>> \in Seq(Notices))
  BY DEF RouterTypes
<1>1. CASE StartServer
  BY <1>1 DEF StartServer
<1>2. CASE Work
  <2>0. commands # <<>> /\ Head(commands) \in Commands
    BY <1>2, HeadTailProperties
    DEF RouterTypes, Work, AddRule, RemoveRule, ListRules, RelayCommit, RelayPreedit, Serving
  <2>1. CASE AddRule
    <3>1. /\ notices' = notices \o <<[kind |-> "added", id |-> Head(commands).rule.id]>>
          /\ Head(commands).rule \in AllRules
      BY <2>0, <2>1, CommandKinds DEF AddRule, Serving, Notify, AllRules
    <3>2. [kind |-> "added", id |-> Head(commands).rule.id] \in Notices
      BY <3>1 DEF Notices, Answers
    <3> QED
      BY <1>0, <3>1, <3>2
  <2>2. CASE RemoveRule
    <3>1. /\ notices' = notices \o <<[kind |-> "removed", id |-> Head(commands).id]>>
          /\ Head(commands).id \in {r.id : r \in AllRules}
      BY <2>0, <2>2, CommandKinds DEF RemoveRule, Serving, Notify, AllRules
    <3>2. [kind |-> "removed", id |-> Head(commands).id] \in Notices
      BY <3>1 DEF Notices, Answers
    <3> QED
      BY <1>0, <3>1, <3>2
  <2>3. CASE ListRules
    <3>1. notices' = notices \o <<[kind |-> "list", rules |-> table]>>
      BY <2>3 DEF ListRules, Notify
    <3>2. [kind |-> "list", rules |-> table] \in Notices
      BY DEF Notices, Answers, RouterTypes, TypeOKRouter
    <3> QED
      BY <1>0, <3>1, <3>2
  <2>4. CASE RelayCommit \/ RelayPreedit
    BY <2>4 DEF RelayCommit, RelayPreedit
  <2> QED
    BY <1>2, <2>1, <2>2, <2>3, <2>4 DEF Work
<1>3. ASSUME NEW c \in Clients, Send(c) \/ Filter(c)
      PROVE  notices' = notices \/ \E ns \in Seq(Notices) : notices' = notices \o ns
  <2>1. CASE AnswerFcitx(c)
    <3>1. call[c] \in Calls /\ Classified(call[c])
      BY <2>1 DEF AnswerFcitx, Filtering, RouterTypes, TypeOKRouter
    <3>2. notices' = notices \/ notices' = notices \o Event(call[c])
      BY <2>1 DEF AnswerFcitx, Notify
    <3> QED
      BY <3>1, <3>2, EventTypes
  <2>2. CASE ~AnswerFcitx(c)
    BY <1>3, <2>2 DEF Send, Filter, Deny, PassToConnection, Forward, BusAnswers
  <2> QED
    BY <2>1, <2>2
<1> QED
  BY <1>1, <1>2, <1>3 DEF Router

LEMMA ChannelSent ==
  ASSUME RouterTypes, ChannelInv, Threads
  PROVE  ChannelInv' /\ Known \subseteq Known'
<1>1. /\ sent' = sent \cup CaretsAfter(Len(notices), notices')
      /\ UNCHANGED <<reported, late, batch, half>> /\ Router
  BY DEF Threads, Noted, imVars, linkVars
<1>2. Known' = Known \cup CaretsAfter(Len(notices), notices')
  BY <1>1 DEF Known
<1>3. batch \in Seq(Told') /\ notices \in Seq(Told')
  BY <1>2, ToldGrows DEF ChannelInv
<1>4. ASSUME NEW ns \in Seq(Notices), notices' = notices \o ns
      PROVE  notices' \in Seq(Told')
  <2>1. /\ notices \in Seq(Notices) /\ notices' \in Seq(Notices)
        /\ Len(notices) \in Nat /\ Len(ns) \in Nat /\ Len(notices') = Len(notices) + Len(ns)
        /\ \A i \in 1 .. Len(notices) + Len(ns) :
             notices'[i] = IF i <= Len(notices) THEN notices[i] ELSE ns[i - Len(notices)]
    BY <1>4, ConcatProperties, LenProperties DEF RouterTypes
  <2>2. \A i \in 1 .. Len(notices') : notices'[i] \in Told'
    <3> SUFFICES ASSUME NEW i \in 1 .. Len(notices') PROVE notices'[i] \in Told'
      OBVIOUS
    <3>1. CASE i <= Len(notices)
      BY <1>3, <2>1, <3>1
    <3>2. CASE i > Len(notices)
      <4>1. i \in Len(notices) + 1 .. Len(notices')
        BY <2>1, <3>2
      <4>2. notices'[i] \in Notices
        BY <2>1
      <4>3. notices'[i].kind = "rect" =>
              <<notices'[i].ic, notices'[i].rect>> \in CaretsAfter(Len(notices), notices')
        BY <4>1 DEF CaretsAfter
      <4> QED
        BY <1>2, <4>2, <4>3 DEF Told
    <3> QED
      BY <2>1, <3>1, <3>2
  <2> QED
    BY <2>1, <2>2
<1>5. notices' \in Seq(Told')
  BY <1>1, <1>3, <1>4, NoticesGrow
<1> QED
  BY <1>1, <1>2, <1>3, <1>5 DEF ChannelInv

LEMMA InitInv == Init => Inv
<1> SUFFICES ASSUME Init PROVE Inv
  OBVIOUS
<1>1. RouterTypes
  <2>1. /\ table \in Seq(AllRules) /\ Sorted(table)
    BY BuiltinAssumption DEF Init, InitRouter
  <2>2. calls \in Nat /\ asks \in Nat
    BY BudgetsAssumption DEF Init
  <2>3. /\ commands \in Seq(Commands) /\ notices \in Seq(Notices)
    BY EmptySeq DEF Init, InitRouter
  <2> QED
    BY <2>1, <2>2, <2>3 DEF Init, InitRouter, RouterTypes, TypeOKRouter
<1>2. ImeInv
  <2>1. Ime!Nobody \in Ime!Owners /\ Ime!Nobody.kind = "none"
    BY DEF Ime!Owners, Ime!Nobody
  <2>2. /\ ime = [owner |-> Ime!Nobody, cursor |-> None, real |-> FALSE, snapshot |-> None,
                 settling |-> FALSE, received |-> FALSE, focused |-> None,
                 cache |-> [k \in Ime!Keys |-> None]]
        /\ applied = [allowed |-> FALSE, area |-> None] /\ host = [allowed |-> FALSE, area |-> None]
        /\ ti = [focus |-> None, rect |-> None] /\ bound = {} /\ kbFocus = None
    BY DEF Init, Ime!InitIme
  <2>3. Sound(ime, Known, ti.rect) /\ forgotten = FALSE
    BY <2>1, <2>2 DEF Sound, Ime!BridgeState, Init, Ime!InitIme
  <2> QED
    BY <2>1, <2>2, <2>3 DEF ImeInv, TiType, Ime!OwnerHasKeyboard
<1>3. LinkInv
  <2>1. ime.owner.kind = "none"
    BY DEF Init, Ime!InitIme, Ime!Nobody
  <2> QED
    BY <2>1, EmptySeq DEF Init, LinkInv, DbusOwnerWantsIme
<1>4. ChannelInv
  BY EmptySeq DEF Init, InitRouter, ChannelInv
<1> QED
  BY <1>1, <1>2, <1>3, <1>4 DEF Inv

\* An owner by D-Bus that was the owner before still wants the input method.
LEMMA LinkKept ==
  ASSUME LinkInv, UNCHANGED linkVars,
         ime'.owner.kind = "dbus" => ime.owner.kind = "dbus" /\ ime'.owner.ic = ime.owner.ic
  PROVE  LinkInv'
BY DEF LinkInv, linkVars, DbusOwnerWantsIme

LEMMA MainKeeps ==
  ASSUME Inv, MainThread
  PROVE  Inv'
<1> USE DEF Inv
<1>0. half = "events" /\ UNCHANGED linkVars
  BY DEF MainThread
<1>1. ASSUME Ime!Main, UNCHANGED <<routerVars, sentVars>> PROVE Inv'
  <2>1. RouterTypes'
    BY <1>1 DEF RouterTypes, TypeOKRouter, routerVars, Sorted
  <2>2. ImeInv' /\ (ime'.owner.kind = "dbus" => ime.owner.kind = "dbus" /\ ime'.owner.ic = ime.owner.ic)
    <3>1. ASSUME NEW s \in Surfaces \cup {None}, Ime!FocusChanged(s)
          PROVE  ImeInv' /\ ime'.owner.kind # "dbus"
      BY <1>1, <3>1, FocusStep
    <3>2. ASSUME NEW s \in Surfaces, Ime!Bind(s) \/ \E r \in Rects : Ime!SetCaret(s, r)
          PROVE  ImeInv' /\ ime' = ime
      BY <1>1, <3>2, ClientSteps
    <3>3. CASE Ime!Sync \/ Ime!HostBlinks
      BY <1>1, <3>3, SyncStep
    <3>4. CASE Ime!HostEvent
      BY <1>1, <3>4, TipSteps
    <3> QED
      BY <1>1, <3>1, <3>2, <3>3, <3>4 DEF Ime!Main
  <2>3. Known \subseteq Known'
    BY <1>1 DEF Ime!Main, Ime!FocusChanged, Ime!Bind, Ime!SetCaret, Ime!Sync, Ime!HostEvent,
      Ime!HostBlinks, Known, sentVars
  <2>4. ChannelInv'
    BY <1>0, <1>1, <2>3, ChannelKept DEF routerVars, linkVars
  <2> QED
    BY <1>0, <2>1, <2>2, <2>4, LinkKept
<1>2. ASSUME Switch PROVE Inv'
  <2>1. PICK t \in Surfaces \cup {None} : Ime!SwitchWorkspace(t)
    BY <1>2 DEF Switch
  <2>2. RouterTypes'
    BY <1>2 DEF Switch, RouterTypes, TypeOKRouter, routerVars, Sorted
  <2>3. ImeInv' /\ ime'.owner.kind # "dbus"
    BY <2>1, SwitchStep
  <2>4. ChannelInv'
    BY <1>0, <1>2, ChannelSwitched
  <2> QED
    BY <1>0, <2>2, <2>3, <2>4, LinkKept
<1>3. ASSUME NEW k \in Texts, Text(k), UNCHANGED sentVars PROVE Inv'
  <2>1. Ime!HostText
    BY <1>3 DEF Text
  <2>2. ImeInv' /\ (ime'.owner.kind = "dbus" => ime.owner.kind = "dbus" /\ ime'.owner.ic = ime.owner.ic)
    BY <1>3, <2>1, TipSteps
  <2>3. RouterTypes' /\ notices' = notices
    <3>1. CASE connected /\ ime.owner.kind = "dbus"
      <4>1. Command(ToContext(k, ime.owner.ic))
        BY <1>3, <3>1 DEF Text
      <4>2. ime.owner.ic \in Paths
        BY <3>1 DEF LinkInv, DbusOwnerWantsIme
      <4>3. ToContext(k, ime.owner.ic) \in Commands
        BY <4>2 DEF Commands
      <4> QED
        BY <4>1, <4>3, CommandTypes DEF Command
    <3>2. CASE ~(connected /\ ime.owner.kind = "dbus")
      <4>1. UNCHANGED routerVars
        BY <1>3, <3>2 DEF Text
      <4> QED
        BY <4>1 DEF RouterTypes, TypeOKRouter, routerVars, Sorted
    <3> QED
      BY <3>1, <3>2
  <2>4. Known' = Known
    BY <1>3, <2>1 DEF Ime!HostText, Known, sentVars
  <2>5. ChannelInv'
    BY <1>0, <2>3, <2>4, ChannelKept DEF linkVars
  <2> QED
    BY <1>0, <2>2, <2>3, <2>5, LinkKept
<1>4. ASSUME NEW k \in Requests, Ask(k), UNCHANGED sentVars PROVE Inv'
  <2>1. Command(k) /\ UNCHANGED imVars /\ k \in Commands
    BY <1>4 DEF Ask, Commands
  <2>2. RouterTypes' /\ notices' = notices
    BY <2>1, CommandTypes DEF Command
  <2>3. Known' = Known
    BY <1>4, <2>1 DEF Known, sentVars, imVars
  <2>4. ImeInv' /\ ime' = ime
    BY <2>1, <2>3, ImeKept
  <2>5. ChannelInv'
    BY <1>0, <2>2, <2>3, ChannelKept DEF linkVars
  <2> QED
    BY <1>0, <2>2, <2>4, <2>5, LinkKept
<1> QED
  BY <1>1, <1>2, <1>3, <1>4 DEF MainThread

LEMMA TickKeeps ==
  ASSUME Inv, Tick
  PROVE  Inv'
<1> USE DEF Inv
<1>1. CASE TakeEvents \/ TakeRest
  <2>1. UNCHANGED <<RouterSame, imVars, wantsIme, sentVars>> /\ notices' = <<>>
    BY <1>1 DEF TakeEvents, TakeRest, Drained
  <2>2. RouterTypes'
    BY <2>1, EmptySeq DEF RouterTypes, TypeOKRouter, RouterSame, Sorted
  <2>3. ImeInv' /\ ime' = ime /\ Known' = Known /\ Told' = Told
    <3>1. Known' = Known
      BY <2>1 DEF Known, imVars, sentVars
    <3> QED
      BY <2>1, <3>1, ImeKept DEF Told
  <2>4. batch' \in Seq(FcitxEvents) /\ batch' \in Seq(Told)
    <3>1. Selected(notices, FcitxEvents) \in Seq(Told \cap FcitxEvents)
      BY SelectedType DEF ChannelInv
    <3>2. Selected(notices, FcitxEvents) \in Seq(Told) \cap Seq(FcitxEvents)
      BY <3>1
    <3> QED
      BY <1>1, <3>2, EmptySeq DEF TakeEvents, TakeRest, LinkInv, ChannelInv
  <2>5. connected' \in BOOLEAN /\ half' \in {"events", "handling", "rest"}
    BY <1>1 DEF TakeEvents, TakeRest, Drained, LinkInv
  <2>6. ChannelInv'
    BY <1>1, <2>1, <2>3, <2>4, EmptySeq DEF ChannelInv, TakeEvents, TakeRest
  <2>7. LinkInv'
    BY <2>1, <2>3, <2>4, <2>5 DEF LinkInv, DbusOwnerWantsIme
  <2> QED
    BY <2>2, <2>3, <2>6, <2>7
<1>2. CASE HandleEvent
  <2> DEFINE e == Head(batch)
  <2>1. /\ e \in FcitxEvents /\ Tail(batch) \in Seq(FcitxEvents)
        /\ Ime!FcitxEvent(e) /\ wantsIme' = Wants(wantsIme, e) /\ batch' = Tail(batch)
        /\ e \in Told /\ Tail(batch) \in Seq(Told) /\ half = "handling"
        /\ UNCHANGED <<routerVars, connected, half, sentVars>>
    BY <1>2, HeadTailProperties DEF HandleEvent, LinkInv, ChannelInv
  <2>2. RouterTypes'
    BY <2>1 DEF RouterTypes, TypeOKRouter, routerVars, Sorted
  <2> HIDE DEF e
  <2>0. e.kind = "rect" => <<e.ic, e.rect>> \in Known
    BY <2>1 DEF Told
  <2>3. /\ ImeInv'
        /\ ime'.owner.kind = "dbus" =>
              \/ e.kind = "focus" /\ e.on /\ ime'.owner.ic = e.ic
              \/ ime'.owner.ic = ime.owner.ic /\ ime.owner.kind = "dbus"
                   /\ (e.kind = "rect" \/ ime.owner.ic # e.ic)
    BY <2>0, <2>1, EventStep
  <2>4. e.ic \in Paths /\ e.kind \in {"focus", "rect", "destroyed"}
    BY <2>1 DEF FcitxEvents
  <2>5. wantsIme' = IF e.kind = "focus" /\ e.on THEN wantsIme \cup {e.ic}
                    ELSE IF e.kind = "rect" THEN wantsIme ELSE wantsIme \ {e.ic}
    BY <2>1, <2>4 DEF Wants
  <2>6. wantsIme' \subseteq Paths
    BY <2>4, <2>5 DEF LinkInv
  <2>7. DbusOwnerWantsIme'
    BY <2>3, <2>4, <2>5 DEF LinkInv, DbusOwnerWantsIme
  <2>8. Known' = Known
    BY <2>1 DEF Ime!FcitxEvent, Known, sentVars
  <2>9. ChannelInv'
    BY <2>1, <2>8, ToldGrows DEF ChannelInv, routerVars
  <2> QED
    BY <2>1, <2>2, <2>3, <2>6, <2>7, <2>9 DEF LinkInv
<1>3. CASE EventsHandled
  <2>1. /\ Ime!PollTip /\ half' = "rest" /\ batch = <<>>
        /\ UNCHANGED <<routerVars, connected, batch, wantsIme, sentVars>>
    BY <1>3 DEF EventsHandled
  <2>2. RouterTypes'
    BY <2>1 DEF RouterTypes, TypeOKRouter, routerVars, Sorted
  <2>3. ImeInv' /\ (ime'.owner.kind = "dbus" => ime.owner.kind = "dbus" /\ ime'.owner.ic = ime.owner.ic)
    BY <2>1, TipSteps
  <2>4. Known' = Known
    BY <2>1 DEF Ime!PollTip, Known, sentVars
  <2>5. ChannelInv'
    BY <2>1, <2>4, ToldGrows DEF ChannelInv, routerVars
  <2> QED
    BY <2>1, <2>2, <2>3, <2>5 DEF LinkInv, DbusOwnerWantsIme
<1> QED
  BY <1>1, <1>2, <1>3 DEF Tick

LEMMA ThreadsKeep ==
  ASSUME Inv, Threads
  PROVE  Inv'
<1> USE DEF Inv
<1>1. Router /\ UNCHANGED <<imVars, linkVars>>
  BY DEF Threads, Noted
<1>2. RouterTypes'
  <2>1. CASE StartServer
    BY <2>1 DEF StartServer, RouterTypes, TypeOKRouter, Sorted
  <2>2. CASE Work
    BY <2>2, WorkTypes
  <2>3. ASSUME NEW c \in Clients, Send(c) \/ Filter(c) PROVE RouterTypes'
    BY <2>3, FilterTypes
  <2> QED
    BY <1>1, <2>1, <2>2, <2>3 DEF Router
<1>3. ChannelInv' /\ Known \subseteq Known'
  BY ChannelSent
<1>4. ImeInv' /\ ime' = ime
  BY <1>1, <1>3, ImeKept
<1> QED
  BY <1>1, <1>2, <1>3, <1>4, LinkKept

LEMMA TimeKeeps ==
  ASSUME Inv, Time
  PROVE  Inv'
<1> USE DEF Inv
<1>1. Ime!SettleElapses /\ UNCHANGED <<routerVars, linkVars, sentVars>>
  BY DEF Time
<1>2. RouterTypes'
  BY <1>1 DEF RouterTypes, TypeOKRouter, routerVars, Sorted
<1>3. ImeInv' /\ ime'.owner = ime.owner
  BY <1>1, SettleStep
<1>4. Known' = Known
  BY <1>1 DEF Ime!SettleElapses, Known, sentVars
<1>5. ChannelInv'
  BY <1>1, <1>4, ChannelKept DEF routerVars, linkVars
<1> QED
  BY <1>1, <1>2, <1>3, <1>5, LinkKept

LEMMA Invariant == Spec => []Inv
<1>1. Inv /\ [Next]_allVars => Inv'
  <2> SUFFICES ASSUME Inv, [Next]_allVars PROVE Inv'
    OBVIOUS
  <2>1. CASE UNCHANGED allVars
    <3>1. Known' = Known
      BY <2>1 DEF Known, allVars, imVars, sentVars
    <3>2. RouterTypes'
      BY <2>1 DEF Inv, RouterTypes, TypeOKRouter, Sorted, allVars, routerVars
    <3>3. ImeInv' /\ ime' = ime
      BY <2>1, <3>1, ImeKept DEF Inv, allVars
    <3>4. ChannelInv'
      BY <2>1, <3>1, ChannelKept DEF Inv, allVars, routerVars, linkVars
    <3>5. LinkInv'
      BY <2>1, <3>3, LinkKept DEF Inv, allVars
    <3> QED
      BY <3>2, <3>3, <3>4, <3>5 DEF Inv
  <2> QED
    BY <2>1, MainKeeps, TickKeeps, ThreadsKeep, TimeKeeps DEF Next
<1> QED
  BY <1>1, InitInv, PTL DEF Spec

----------------------------------------------------------------------------
(* Theorems *)

\* What the bridge, the router and their channels hold is what the code's types
\* say, whatever the applications call and the host answers.
THEOREM TypeCorrect == Spec => []TypeOK
<1>1. Inv => TypeOK
  BY DEF Inv, TypeOK, Ime!TypeOKIme, RouterTypes, ImeInv, LinkInv, Notices, Sound, TiType
<1> QED
  BY <1>1, Invariant, PTL

\* No call that the table denies is at the bus, and so a rule that was
\* acknowledged holds for calls that came before it (handle_client_message and
\* handle_bridge_command, which share the table's mutex).
THEOREM DenyIsFinalCorrect == Spec => []DenyIsFinal
<1>1. Init => DenyInv
  BY DEF Init, InitRouter, DenyInv
<1>2. DenyInv /\ [Next]_allVars => DenyInv'
  <2> SUFFICES ASSUME DenyInv, [Next]_allVars PROVE DenyInv'
    OBVIOUS
  <2>1. CASE UNCHANGED <<table, held, call>>
    BY <2>1 DEF DenyInv
  <2>2. CASE StartServer
    BY <2>1, <2>2 DEF StartServer
  <2>3. CASE Work
    BY <2>3, WorkKeepsDeny
  <2>4. ASSUME NEW c \in Clients, Send(c) \/ Filter(c) PROVE DenyInv'
    BY <2>4, FilterKeepsDeny
  <2> QED
    BY <2>1, <2>2, <2>3, <2>4, MainLeavesCalls
    DEF Next, Threads, Router, allVars, routerVars
<1>3. DenyInv => DenyIsFinal
  BY DEF DenyInv, DenyIsFinal
<1> QED
  BY <1>1, <1>2, <1>3, PTL DEF Spec

\* A call goes where the best of the rules that match it says, whatever order
\* rules are added and removed in (RoutingTable::add, remove and route_str).
THEOREM BestRuleWinsCorrect == Spec => []BestRuleWins
<1>1. Inv => BestRuleWins
  <2> SUFFICES ASSUME Inv, NEW m \in Calls, NEW i \in DOMAIN table, Matches(table[i], m)
               PROVE  \E j \in DOMAIN table : /\ Matches(table[j], m)
                                              /\ ~Before(table[i], table[j])
                                              /\ Route(table, m) = table[j].target
    BY DEF BestRuleWins
  <2>1. table \in Seq(AllRules) /\ Sorted(table)
    BY DEF Inv, RouterTypes, TypeOKRouter
  <2> QED
    BY <2>1, RouteIsBest
<1> QED
  BY <1>1, Invariant, PTL

\* Whatever order focus, workspace switch and late binding come in, the bridge,
\* the text-input handle and the keyboard point at one surface, and no other
\* owns the bridge by text-input; after a switch to the surface that has the
\* keyboard already the bridge points at none, and no text input owns it, until
\* the keyboard moves (on_focus_changed, reset_on_workspace_switch,
\* poll_tip_freshness).
THEOREM OwnerHasKeyboardCorrect == Spec => []OwnerHasKeyboard
<1>1. Inv => OwnerHasKeyboard
  BY DEF Inv, ImeInv, OwnerHasKeyboard
<1> QED
  BY <1>1, Invariant, PTL

\* A caret the bridge takes for real was reported by its owner's text input, or
\* came for its owner's path, since the last switch of workspaces, or was in the
\* channel at it (set_owner, report_tip_cursor_change, report_dbus_cursor).
THEOREM CursorFromOwnerCorrect == Spec => []CursorFromOwner
<1>1. Inv => CursorFromOwner
  BY DEF Inv, ImeInv, Known, Sound, CursorFromOwner
<1> QED
  BY <1>1, Invariant, PTL

\* While the host's input method is on, the host knows where the caret is
\* (sync_to_winit).
THEOREM HostAreaKnownCorrect == Spec => []HostAreaKnown
<1>1. Inv => HostAreaKnown
  BY DEF Inv, ImeInv, HostAreaKnown, Ime!HostAreaKnown
<1> QED
  BY <1>1, Invariant, PTL

\* A context owns the bridge only while the last the compositor has heard of it
\* is that it has the focus (on_fcitx_event).
THEOREM DbusOwnerWantsImeCorrect == Spec => []DbusOwnerWantsIme
<1>1. Inv => DbusOwnerWantsIme
  BY DEF Inv, LinkInv
<1> QED
  BY <1>1, Invariant, PTL
=============================================================================
