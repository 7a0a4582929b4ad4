------------------------ MODULE HostClipboard_proofs ------------------------
(***************************************************************************)
(* The clipboard, for any number of copies and pastes at both sides.  The   *)
(* types of the queues are part of the induction (Types).  NotifiedOnce is *)
(* not inductive: a request passes from the event queue of the backend to  *)
(* the queue of the tick and then to a pipe, and could be answered at each  *)
(* of the three.  Fate says that it is at one of them at a time, once.     *)
(***************************************************************************)
EXTENDS HostClipboard, SequenceTheorems, TLAPS

-----------------------------------------------------------------------------
(* The types of what is on its way                                         *)

Requests ==
  [type : {"set"}, sel : ClientCopies \cup {None}]
  \cup [type : {"receive"}, sel : Copies, paste : ClientPastes]
  \cup [type : {"convert"}, target : {"targets"}, prop : Props, paste : {None}]
  \cup [type : {"convert"}, target : {"data"}, prop : Props, paste : ClientPastes]

HostEvents ==
  [type : {"selection"}, sel : Copies \cup {None}, ours : BOOLEAN]
  \cup [type : {"cancelled"}, sel : Copies]
  \cup [type : {"send"}, sel : Copies, paste : Pastes]
  \cup [type : {"enter", "leave", "finished"}]
  \cup [type : {"xfixes"}, sel : Copies \cup {None}]
  \cup [type : {"newValue"}, prop : Props]
  \cup [type : {"notify"}, prop : Props, ok : BOOLEAN]
  \cup [type : {"ask"}, paste : Pastes, target : {"targets", "data", "unknown"}, prop : Props]
  \cup [type : {"ask"}, paste : {None}, target : {"targets"}, prop : Props]

BridgeEvents ==
  [type : {"changed"}, sel : Copies \cup {None}]
  \cup [type : {"request"}, paste : Pastes]
  \cup [type : {"sourceCancelled"}]

Contents == [what : {"targets", "data", "header", "chunk", "end"}, sel : Copies]

Conversions ==
  [what : {"targets"}] \cup [what : {"data"}, paste : ClientPastes, incr : BOOLEAN, parts : Nat]

QueuesOK ==
  /\ toHost \in Seq(Requests)
  /\ toEmthin \in Seq(HostEvents)
  /\ events \in Seq(BridgeEvents)

XTypes ==
  /\ prop \in [Props -> Contents \cup {None}]
  /\ pending \in [Props -> Conversions \cup {None}]
  /\ incr \in Contents \cup {None}
  /\ notified \in [HostPastes -> Nat]

Types == TypeOK /\ QueuesOK /\ XTypes

\* What a request holds, by its type.
LEMMA RequestFields ==
  ASSUME NEW r \in Requests
  PROVE  /\ r.type = "set" => r.sel \in ClientCopies \cup {None}
         /\ r.type = "receive" => r.sel \in Copies /\ r.paste \in ClientPastes
         /\ r.type = "convert" =>
              /\ r.target \in {"targets", "data"} /\ r.prop \in Props
              /\ r.target = "data" => r.paste \in ClientPastes
              /\ r.target = "targets" => r.paste = None
  BY DEF Requests

\* What an event of the host holds, by its type.
LEMMA EventFields ==
  ASSUME NEW e \in HostEvents
  PROVE  /\ e.type \in {"selection", "xfixes"} => e.sel \in Copies \cup {None}
         /\ e.type \in {"cancelled", "send"} => e.sel \in Copies
         /\ e.type = "send" => e.paste \in Pastes
         /\ e.type \in {"newValue", "notify", "ask"} => e.prop \in Props
         /\ e.type = "notify" => e.ok \in BOOLEAN
         /\ e.type = "ask" =>
              /\ e.target \in {"targets", "data", "unknown"}
              /\ e.paste \in Pastes \/ (e.paste = None /\ e.target = "targets")
  BY DEF HostEvents

LEMMA BridgeFields ==
  ASSUME NEW x \in BridgeEvents
  PROVE  /\ x.type \in {"changed", "request", "sourceCancelled"}
         /\ x.type = "changed" => x.sel \in Copies \cup {None}
         /\ x.type = "request" => x.paste \in Pastes
  BY DEF BridgeEvents

\* The constructors make elements of these sets.
LEMMA Constructed ==
  /\ \A c \in ClientCopies \cup {None} : [type |-> "set", sel |-> c] \in Requests
  /\ \A c \in Copies, f \in ClientPastes :
       [type |-> "receive", sel |-> c, paste |-> f] \in Requests
  /\ \A k \in Props : Convert("targets", k, None) \in Requests
  /\ \A k \in Props, f \in ClientPastes : Convert("data", k, f) \in Requests
  /\ \A c \in Copies \cup {None} : HostSelectionChanged(c) \in BridgeEvents
  /\ \A f \in Pastes : HostSendRequest(f) \in BridgeEvents
  /\ SourceCancelled \in BridgeEvents
  BY DEF Requests, BridgeEvents, Convert, HostSelectionChanged, HostSendRequest, SourceCancelled

LEMMA EventsConstructed ==
  /\ \A c \in Copies \cup {None}, b \in BOOLEAN : Selection(c, b) \in HostEvents
  /\ \A c \in Copies : Cancelled(c) \in HostEvents
  /\ \A c \in Copies, f \in Pastes : Send(c, f) \in HostEvents
  /\ \A t \in {"enter", "leave", "finished"} : [type |-> t] \in HostEvents
  /\ \A c \in Copies \cup {None} : Xfixes(c) \in HostEvents
  /\ \A k \in Props : NewValue(k) \in HostEvents
  /\ \A k \in Props, b \in BOOLEAN : Notify(k, b) \in HostEvents
  /\ \A f \in Pastes, t \in {"targets", "data", "unknown"}, k \in Props : Ask(f, t, k) \in HostEvents
  /\ \A k \in Props : Ask(None, "targets", k) \in HostEvents
  BY DEF HostEvents, Selection, Cancelled, Send, Xfixes, NewValue, Notify, Ask

LEMMA QueueSteps ==
  ASSUME NEW S, NEW q \in Seq(S)
  PROVE  /\ q # <<>> => Head(q) \in S /\ Tail(q) \in Seq(S)
         /\ \A e \in S : Append(q, e) \in Seq(S) /\ <<e>> \in Seq(S)
         /\ \A r \in Seq(S) : q \o r \in Seq(S)
         /\ <<>> \in Seq(S)
  OBVIOUS

LEMMA PairOfEvents ==
  ASSUME NEW a \in HostEvents, NEW b \in HostEvents, NEW q \in Seq(HostEvents)
  PROVE  q \o <<a, b>> \in Seq(HostEvents)
<1>1. <<a, b>> \in Seq(HostEvents)
  <2> HIDE DEF HostEvents
  <2> QED
    OBVIOUS
<1> QED
  BY <1>1, QueueSteps

-----------------------------------------------------------------------------
(* Every step keeps the types                                              *)

\* init() finds a backend of the chain, or none.
LEMMA BackendFound ==
  ASSUME NEW s PROVE InitBackend(s) \in {"data_control", "wl_data_device", "x11", "none"}
<1> DEFINE first(i) == Chain[i] \in s /\ \A j \in 1 .. i - 1 : Chain[j] \notin s
<1>1. CASE \E i \in DOMAIN Chain : Chain[i] \in s
  <2>1. DOMAIN Chain = 1 .. 3
    BY DEF Chain
  <2>2. PICK i \in 1 .. 3 : Chain[i] \in s
    BY <1>1, <2>1
  <2>3. \E j \in DOMAIN Chain : first(j)
    <3>1. CASE Chain[1] \in s
      BY <3>1, <2>1
    <3>2. CASE Chain[1] \notin s /\ Chain[2] \in s
      BY <3>2, <2>1
    <3>3. CASE Chain[1] \notin s /\ Chain[2] \notin s
      <4>1. Chain[3] \in s
        BY <3>3, <2>2
      <4> QED
        BY <4>1, <3>3, <2>1
    <3> QED
      BY <3>1, <3>2, <3>3
  <2>4. (CHOOSE j \in DOMAIN Chain : first(j)) \in 1 .. 3
    BY <2>1, <2>3
  <2> QED
    BY <1>1, <2>4 DEF InitBackend, Chain
<1>2. CASE ~ \E i \in DOMAIN Chain : Chain[i] \in s
  BY <1>2 DEF InitBackend
<1> QED
  BY <1>1, <1>2

LEMMA InitTypes == Init => Types
<1> SUFFICES ASSUME Init PROVE Types
  OBVIOUS
<1>1. TypeOK
  <2>1. backend \in {"data_control", "wl_data_device", "x11", "none"}
    BY BackendFound DEF Init
  <2> QED
    BY <2>1 DEF Init, TypeOK, Copies, NoSelection
<1>2. QueuesOK
  <2>1. hostOwner \in Copies \cup {None}
    BY <1>1 DEF TypeOK
  <2>2. events \in Seq(BridgeEvents)
    <3>1. HostSelectionChanged(hostOwner) \in BridgeEvents
      BY <2>1, Constructed
    <3> QED
      BY <3>1 DEF Init
  <2>3. toHost \in Seq(Requests)
    <3>1. Convert("targets", "INIT", None) \in Requests
      BY Constructed DEF Props
    <3> QED
      BY <3>1 DEF Init
  <2> QED
    BY <2>2, <2>3 DEF Init, QueuesOK
<1>3. XTypes
  BY DEF Init, XTypes, Conversions, Props
<1> QED
  BY <1>1, <1>2, <1>3 DEF Types

\* Changes of the host's Wayland selection are made of events.
LEMMA AnnouncedTypes ==
  ASSUME Types, NEW c \in Copies \cup {None}, NEW b \in BOOLEAN, Announced(c, b)
  PROVE  hostOwner' \in Copies \cup {None} /\ toEmthin' \in Seq(HostEvents)
<1>1. Selection(c, b) \in HostEvents
  BY EventsConstructed
<1>2. hostOwner \in ClientCopies => Cancelled(hostOwner) \in HostEvents
  BY EventsConstructed DEF Copies
<1> DEFINE first == IF hostOwner \in ClientCopies /\ hostOwner # c
                    THEN <<Cancelled(hostOwner)>> ELSE <<>>
           second == IF Focused THEN <<Selection(c, b)>> ELSE <<>>
<1>3. first \in Seq(HostEvents) /\ second \in Seq(HostEvents)
  BY <1>1, <1>2
<1>4. toEmthin \in Seq(HostEvents)
  BY DEF Types, QueuesOK
<1>5. toEmthin \o first \in Seq(HostEvents)
  BY <1>3, <1>4, QueueSteps
<1>6. (toEmthin \o first) \o second \in Seq(HostEvents)
  BY <1>3, <1>5, QueueSteps
<1> QED
  BY <1>6 DEF Announced

LEMMA HostTypes ==
  ASSUME Types, HostAnswers PROVE Types'
<1> USE DEF Types, TypeOK, QueuesOK, XTypes, xVars, wlVars, bridgeVars
<1>0. toHost # <<>> => Head(toHost) \in Requests /\ Tail(toHost) \in Seq(Requests)
  BY QueueSteps
<1>1. CASE HostSets /\ UNCHANGED <<xVars, bridgeVars>>
  <2>1. Head(toHost).sel \in ClientCopies \cup {None} /\ Tail(toHost) \in Seq(Requests)
    BY <1>0, <1>1, RequestFields DEF HostSets
  <2>2. hostOwner' \in Copies \cup {None} /\ toEmthin' \in Seq(HostEvents)
    BY <1>1, <2>1, AnnouncedTypes DEF HostSets, Copies
  <2> QED
    BY <1>1, <2>1, <2>2 DEF HostSets
<1>2. CASE HostReceives /\ UNCHANGED <<xVars, bridgeVars>>
  <2> DEFINE r == Head(toHost)
  <2>1. r.sel \in Copies /\ r.paste \in ClientPastes /\ Tail(toHost) \in Seq(Requests)
    BY <1>0, <1>2, RequestFields DEF HostReceives
  <2>2. Send(r.sel, r.paste) \in HostEvents
    BY <2>1, EventsConstructed DEF Pastes
  <2>3. toEmthin' \in Seq(HostEvents)
    <3>1. Append(toEmthin, Send(r.sel, r.paste)) \in Seq(HostEvents)
      BY <2>2, QueueSteps
    <3>2. toEmthin' \in {toEmthin, Append(toEmthin, Send(r.sel, r.paste))}
      BY <1>2 DEF HostReceives
    <3> QED
      BY <3>1, <3>2
  <2>4. got' \in [Pastes -> Copies \cup {"idle", "waiting", "eof", "part"}]
    BY <1>2, <2>1 DEF HostReceives
  <2> QED
    BY <1>2, <2>1, <2>3, <2>4 DEF HostReceives
<1>3. CASE XSets /\ UNCHANGED <<wlVars, bridgeVars>>
  <2>1. Head(toHost).sel \in ClientCopies \cup {None} /\ Tail(toHost) \in Seq(Requests)
    BY <1>0, <1>3, RequestFields DEF XSets
  <2>2. Xfixes(Head(toHost).sel) \in HostEvents
    BY <2>1, EventsConstructed DEF Copies
  <2>3. toEmthin' \in Seq(HostEvents)
    BY <1>3, <2>2, QueueSteps DEF XSets
  <2> QED
    BY <1>3, <2>1, <2>3 DEF XSets, Copies
<1>4. CASE XConverts /\ UNCHANGED <<wlVars, bridgeVars>>
  <2> DEFINE r == Head(toHost)
  <2>1. /\ r.prop \in Props /\ r.target \in {"targets", "data"} /\ Tail(toHost) \in Seq(Requests)
        /\ r.paste \in Pastes \/ (r.paste = None /\ r.target = "targets")
    BY <1>0, <1>4, RequestFields DEF XConverts, Pastes
  <2>2. /\ Notify(r.prop, FALSE) \in HostEvents /\ Notify(r.prop, TRUE) \in HostEvents
        /\ NewValue(r.prop) \in HostEvents /\ Ask(r.paste, r.target, r.prop) \in HostEvents
    BY <2>1, EventsConstructed
  <2>3. /\ Append(toEmthin, Notify(r.prop, FALSE)) \in Seq(HostEvents)
        /\ Append(toEmthin, Ask(r.paste, r.target, r.prop)) \in Seq(HostEvents)
        /\ toEmthin \o <<NewValue(r.prop), Notify(r.prop, TRUE)>> \in Seq(HostEvents)
    BY <2>2, QueueSteps, PairOfEvents
  <2>4. hostOwner \in HostCopies =>
          \A w \in {"targets", "data", "header", "chunk"} : Holds(w, hostOwner) \in Contents
    BY DEF Holds, Contents, Copies
  <2>5. CASE UNCHANGED <<prop, incr>>
    <3>1. toEmthin' \in Seq(HostEvents)
      BY <1>4, <2>3, <2>5 DEF XConverts, Answered
    <3> QED
      BY <1>4, <2>1, <2>5, <3>1 DEF XConverts
  <2>6. CASE /\ hostOwner \in HostCopies
             /\ Answered(r.prop, Holds(r.target, hostOwner)) /\ UNCHANGED <<refused, incr>>
    <3>1. prop' \in [Props -> Contents \cup {None}]
      BY <2>6, <2>1, <2>4 DEF Answered
    <3> QED
      BY <1>4, <2>1, <2>3, <2>6, <3>1 DEF XConverts, Answered
  <2>7. CASE /\ hostOwner \in HostCopies
             /\ Answered(r.prop, Holds("header", hostOwner))
             /\ incr' = Holds("chunk", hostOwner) /\ UNCHANGED refused
    <3>1. prop' \in [Props -> Contents \cup {None}] /\ incr' \in Contents
      BY <2>7, <2>1, <2>4 DEF Answered
    <3> QED
      BY <1>4, <2>1, <2>3, <2>7, <3>1 DEF XConverts, Answered
  <2> QED
    BY <1>4, <2>5, <2>6, <2>7 DEF XConverts
<1> QED
  BY <1>1, <1>2, <1>3, <1>4 DEF HostAnswers

\* What the host and its applications do by themselves.
LEMMA HostStepTypes ==
  ASSUME Types,
         \/ HostFeeds \/ HostOwnerGone \/ HostFocus \/ DeviceFinished
         \/ \E h \in HostCopies : HostAppCopy(h)
  PROVE  Types'
<1> USE DEF Types, TypeOK, QueuesOK, XTypes, xVars, wlVars, bridgeVars
<1>1. CASE HostFeeds
  <2>1. incr \in Contents /\ Contents # {} /\ NewValue("SEL") \in HostEvents
    BY <1>1, EventsConstructed DEF HostFeeds, XFeeds, Props
  <2>2. Holds("end", incr.sel) \in Contents
    BY <2>1 DEF Holds, Contents
  <2>3. toEmthin' \in Seq(HostEvents)
    BY <1>1, <2>1, QueueSteps DEF HostFeeds, XFeeds
  <2>4. prop' \in [Props -> Contents \cup {None}]
    BY <1>1, <2>1 DEF HostFeeds, XFeeds
  <2>5. incr' \in Contents \cup {None}
    BY <1>1, <2>2 DEF HostFeeds, XFeeds
  <2> QED
    BY <1>1, <2>3, <2>4, <2>5 DEF HostFeeds, XFeeds
<1>2. ASSUME NEW c \in HostCopies \cup {None}, Announced(c, FALSE)
      PROVE  hostOwner' \in Copies \cup {None} /\ toEmthin' \in Seq(HostEvents)
  BY <1>2, AnnouncedTypes DEF Copies
<1>3. ASSUME NEW c \in HostCopies \cup {None}
      PROVE  Append(toEmthin, Xfixes(c)) \in Seq(HostEvents)
  BY QueueSteps, EventsConstructed DEF Copies
<1>4. CASE HostOwnerGone
  <2>1. CASE HostOwnerQuits /\ UNCHANGED xVars
    BY <1>2, <1>4, <2>1 DEF HostOwnerGone, HostOwnerQuits
  <2>2. CASE XOwnerQuits /\ UNCHANGED wlVars
    BY <1>3, <1>4, <2>2 DEF HostOwnerGone, XOwnerQuits
  <2> QED
    BY <1>4, <2>1, <2>2 DEF HostOwnerGone
<1>5. ASSUME NEW h \in HostCopies, HostAppCopy(h) PROVE Types'
  <2>1. CASE HostAppCopies(h) /\ UNCHANGED xVars
    BY <1>2, <1>5, <2>1 DEF HostAppCopy, HostAppCopies
  <2>2. CASE XAppCopies(h) /\ UNCHANGED wlVars
    <3>1. toEmthin' \in Seq(HostEvents) /\ hostOwner' \in Copies
      BY <1>3, <2>2 DEF XAppCopies, Copies
    <3> QED
      BY <1>5, <2>2, <3>1 DEF HostAppCopy, XAppCopies
  <2> QED
    BY <1>5, <2>1, <2>2 DEF HostAppCopy
<1>6. CASE HostFocus
  <2>1. Selection(hostOwner, FALSE) \in HostEvents
    BY EventsConstructed
  <2>2. [type |-> "enter"] \in HostEvents /\ [type |-> "leave"] \in HostEvents
    BY EventsConstructed
  <2>3. /\ toEmthin \o <<Selection(hostOwner, FALSE), [type |-> "enter"]>> \in Seq(HostEvents)
        /\ Append(toEmthin, [type |-> "leave"]) \in Seq(HostEvents)
    BY <2>1, <2>2, PairOfEvents, QueueSteps
  <2>4. toEmthin' \in Seq(HostEvents)
    BY <1>6, <2>3 DEF HostFocus, HostFocusIn, HostFocusOut
  <2> QED
    BY <1>6, <2>4 DEF HostFocus, HostFocusIn, HostFocusOut
<1>7. CASE DeviceFinished
  <2>1. [type |-> "finished"] \in HostEvents
    BY EventsConstructed
  <2>2. toEmthin' \in Seq(HostEvents)
    BY <1>7, <2>1, QueueSteps DEF DeviceFinished, HostFinishes
  <2> QED
    BY <1>7, <2>2 DEF DeviceFinished, HostFinishes
<1> QED
  BY <1>1, <1>4, <1>5, <1>6, <1>7

LEMMA HostAppPasteTypes ==
  ASSUME Types, NEW f \in HostPastes, HostAppPaste(f) PROVE Types'
<1> USE DEF Types, TypeOK, QueuesOK, XTypes, xVars, wlVars, bridgeVars
<1>1. got' \in [Pastes -> Copies \cup {"idle", "waiting", "eof", "part"}]
  BY DEF HostAppPaste
<1>2. CASE HostAppPastes(f) /\ UNCHANGED xVars
  <2>1. Send(hostOwner, f) \in HostEvents
    BY EventsConstructed DEF HostAppPaste, Copies, Pastes
  <2>2. toEmthin' \in Seq(HostEvents)
    BY <1>2, <2>1, QueueSteps DEF HostAppPastes
  <2> QED
    BY <1>1, <1>2, <2>2 DEF HostAppPaste, HostAppPastes
<1>3. ASSUME NEW t \in {"targets", "data", "unknown"}, XAppPastes(f, t), UNCHANGED wlVars
      PROVE  Types'
  <2>1. Ask(f, t, "SEL") \in HostEvents
    BY EventsConstructed DEF Pastes, Props
  <2>2. toEmthin' \in Seq(HostEvents)
    BY <1>3, <2>1, QueueSteps DEF XAppPastes
  <2> QED
    BY <1>1, <1>3, <2>2 DEF HostAppPaste, XAppPastes
<1> QED
  BY <1>2, <1>3 DEF HostAppPaste

\* The backend's request for a selection.
LEMMA SetHostTypes ==
  ASSUME Types, NEW c \in ClientCopies \cup {None}, SetHost(c)
  PROVE  /\ toHost' \in Seq(Requests) /\ suppress' \in Nat
         /\ {source', ours'} \subseteq ClientCopies \cup {None}
         /\ UNCHANGED <<offer, pending, prop, incr, outgoing, notified>>
<1> USE DEF Types, TypeOK, QueuesOK, xVars, wlVars
<1>1. Append(toHost, [type |-> "set", sel |-> c]) \in Seq(Requests)
  BY QueueSteps, Constructed
<1>2. CASE XSet(c) /\ UNCHANGED wlVars
  BY <1>1, <1>2 DEF XSet
<1>3. CASE WlSet(c) /\ UNCHANGED xVars
  <2>1. CASE CanSet
    <3>1. /\ toHost' = Append(toHost, [type |-> "set", sel |-> c]) /\ source' = c
          /\ suppress' = suppress + 1 /\ offer' = offer
      BY <1>3, <2>1 DEF WlSet
    <3>2. toHost' \in Seq(Requests)
      BY <1>1, <3>1
    <3> QED
      BY <1>3, <3>1, <3>2
  <2>2. CASE ~CanSet
    BY <1>3, <2>2 DEF WlSet
  <2> QED
    BY <2>1, <2>2
<1>4. CASE UNCHANGED <<toHost, suppress, wlVars, xVars>>
  BY <1>4
<1> QED
  BY <1>2, <1>3, <1>4 DEF SetHost

\* Clients that copy, clear, paste and write, and Emacs that comes and goes.
LEMMA ClientTypes ==
  ASSUME Types,
         \/ EmacsConnection \/ ClientClear \/ ClientSourceGone
         \/ \E c \in ClientCopies : ClientCopy(c)
         \/ \E p \in ClientPastes : ClientPaste(p)
         \/ \E f \in Pastes : ClientWrites(f)
  PROVE  Types'
<1> USE DEF Types, TypeOK, QueuesOK, XTypes
<1>1. CASE EmacsConnection
  BY <1>1 DEF EmacsConnection, hostVars, xVars, wlVars
<1>2. CASE ClientClear
  <2>1. /\ toHost' \in Seq(Requests) /\ suppress' \in Nat
        /\ {source', ours'} \subseteq ClientCopies \cup {None}
        /\ UNCHANGED <<offer, pending, prop, incr, outgoing, notified>>
    BY <1>2, SetHostTypes DEF ClientClear
  <2> QED
    BY <1>2, <2>1 DEF ClientClear, NoSelection
<1>6. CASE ClientSourceGone
  BY <1>6 DEF ClientSourceGone, NoSelection, hostVars, xVars, wlVars
<1>3. ASSUME NEW c \in ClientCopies, ClientCopy(c) PROVE Types'
  <2>1. /\ toHost' \in Seq(Requests) /\ suppress' \in Nat
        /\ {source', ours'} \subseteq ClientCopies \cup {None}
        /\ UNCHANGED <<offer, pending, prop, incr, outgoing, notified>>
    <3>1. CASE connected
      BY <1>3, <3>1, SetHostTypes DEF ClientCopy
    <3>2. CASE ~connected
      BY <1>3, <3>2 DEF ClientCopy, wlVars, xVars
    <3> QED
      BY <3>1, <3>2
  <2>2. origin' = "Wayland" /\ seat' \in [by : {"client"}, sel : ClientCopies]
    BY <1>3 DEF ClientCopy, Originates, OnClients
  <2> QED
    BY <1>3, <2>1, <2>2 DEF ClientCopy, NoSelection
<1>4. ASSUME NEW p \in ClientPastes, ClientPaste(p) PROVE Types'
  <2> DEFINE conversion == [what |-> "data", paste |-> p, incr |-> FALSE, parts |-> 0]
  <2>1. /\ Append(toHost, Convert("data", "SEL", p)) \in Seq(Requests)
        /\ offer # None => Append(toHost, [type |-> "receive", sel |-> offer, paste |-> p]) \in Seq(Requests)
    BY QueueSteps, Constructed DEF Props
  <2>2. conversion \in Conversions
    BY DEF Conversions
  <2>3. Displaced("SEL") \in [Pastes -> Copies \cup {"idle", "waiting", "eof", "part"}]
    BY DEF Displaced
  <2>4. CASE XReceive(p)
    <3>1. /\ pending' \in [Props -> Conversions \cup {None}] /\ toHost' \in Seq(Requests)
          /\ got' \in [Pastes -> Copies \cup {"idle", "waiting", "eof", "part"}]
      <4>1. CASE /\ toHost' = Append(toHost, Convert("data", "SEL", p))
                 /\ pending' = [pending EXCEPT !["SEL"] = conversion]
                 /\ got' = [Displaced("SEL") EXCEPT ![p] = "waiting"]
        <5> HIDE DEF conversion
        <5>1. pending' \in [Props -> Conversions \cup {None}]
          BY <4>1, <2>2
        <5>2. got' \in [Pastes -> Copies \cup {"idle", "waiting", "eof", "part"}]
          BY <4>1, <2>3
        <5> QED
          BY <4>1, <5>1, <5>2, <2>1
      <4>2. CASE got' = [got EXCEPT ![p] = "eof"] /\ UNCHANGED <<toHost, pending>>
        BY <4>2
      <4> QED
        BY <2>4, <4>1, <4>2 DEF XReceive
    <3> QED
      BY <1>4, <3>1 DEF ClientPaste, wlVars, bridgeVars
  <2>5. CASE WlReceive(p) /\ UNCHANGED pending
    <3>1. CASE offer = None
      BY <1>4, <2>5, <3>1 DEF ClientPaste, WlReceive, wlVars, bridgeVars
    <3>2. CASE offer # None
      BY <1>4, <2>1, <2>5, <3>2 DEF ClientPaste, WlReceive, wlVars, bridgeVars
    <3> QED
      BY <3>1, <3>2
  <2>6. CASE got' = [got EXCEPT ![p] = "eof"] /\ UNCHANGED <<toHost, pending>>
    BY <1>4, <2>6 DEF ClientPaste, wlVars, bridgeVars
  <2> QED
    BY <1>4, <2>4, <2>5, <2>6 DEF ClientPaste
<1>5. ASSUME NEW f \in Pastes, ClientWrites(f) PROVE Types'
  <2>1. serving[f] \in Copies
    BY <1>5 DEF ClientWrites, Copies
  <2>2. PICK data \in {serving[f], "eof"} :
          IF backend = "x11"
          THEN /\ outgoing' = [outgoing EXCEPT ![f] = IF @ = "open" THEN data ELSE @]
               /\ UNCHANGED got
          ELSE got' = [got EXCEPT ![f] = data] /\ UNCHANGED outgoing
    BY <1>5 DEF ClientWrites
  <2>3. /\ outgoing' \in [Pastes -> Copies \cup {"none", "asked", "open", "eof"}]
        /\ got' \in [Pastes -> Copies \cup {"idle", "waiting", "eof", "part"}]
    BY <2>1, <2>2
  <2> QED
    BY <1>5, <2>3 DEF ClientWrites, wlVars
<1> QED
  BY <1>1, <1>2, <1>3, <1>4, <1>5, <1>6

\* What the handler of a Wayland event does to the backend, and what it emits.
LEMMA WaylandTypes ==
  ASSUME Types, NEW e \in HostEvents, WlHandles(e)
  PROVE  /\ source' \in ClientCopies \cup {None} /\ offer' \in Copies \cup {None} /\ suppress' \in Nat
         /\ WlEmits(e) \in Seq(BridgeEvents)
         /\ WlEmits(e) # <<>> => Head(WlEmits(e)) \in BridgeEvents
         /\ Closes(e) => e.paste \in Pastes
<1> USE DEF Types, TypeOK
<1>1. /\ e.type = "selection" => e.sel \in Copies \cup {None}
      /\ e.type = "send" => e.paste \in Pastes
  BY EventFields
<1>2. source' \in ClientCopies \cup {None} /\ offer' \in Copies \cup {None}
  BY <1>1 DEF WlHandles
<1>3. suppress' \in Nat
  BY DEF WlHandles, Swallows
<1>4. WlEmits(e) = <<>> \/ \E x \in BridgeEvents : WlEmits(e) = <<x>>
  BY <1>1, Constructed DEF WlEmits
<1>5. /\ WlEmits(e) \in Seq(BridgeEvents)
      /\ WlEmits(e) # <<>> => Head(WlEmits(e)) \in BridgeEvents
  <2>1. ASSUME NEW x \in BridgeEvents PROVE <<x>> \in Seq(BridgeEvents) /\ Head(<<x>>) = x
    OBVIOUS
  <2>2. ASSUME NEW x \in BridgeEvents, WlEmits(e) = <<x>>
        PROVE  WlEmits(e) \in Seq(BridgeEvents) /\ Head(WlEmits(e)) \in BridgeEvents
    <3> HIDE DEF Types, TypeOK
    <3> QED
      BY <2>1, <2>2
  <2>3. CASE WlEmits(e) = <<>>
    BY <2>3
  <2> QED
    BY <1>4, <2>2, <2>3
<1> QED
  BY <1>1, <1>2, <1>3, <1>5 DEF Closes

\* What the compositor does with an event.
LEMMA HandleTypes ==
  ASSUME Types, NEW x \in BridgeEvents, Handle(x)
  PROVE  /\ origin' \in {"Wayland", "Host"}
         /\ seat' \in {NoSelection} \cup [by : {"client"}, sel : ClientCopies]
                        \cup [by : {"host"}, sel : Copies]
         /\ serving' \in [Pastes -> ClientCopies \cup {None}]
         /\ got' \in [Pastes -> Copies \cup {"idle", "waiting", "eof", "part"}]
<1> USE DEF Types, TypeOK
<1>1. x.type = "changed" => x.sel \in Copies \cup {None}
  BY BridgeFields
<1>2. seat.by = "client" => seat.sel \in ClientCopies
  BY DEF NoSelection
<1>3. CASE HandleChanged(x)
  BY <1>1, <1>3 DEF HandleChanged, Inject, OnHost
<1>4. CASE HandleCancelled(x)
  BY <1>4 DEF HandleCancelled
<1>5. CASE HandleRequest(x)
  BY <1>2, <1>5 DEF HandleRequest, Forwards, Dropped
<1> QED
  BY <1>3, <1>4, <1>5 DEF Handle

LEMMA DispatchWaylandTypes ==
  ASSUME Types, DispatchDataControl \/ DispatchDataDevice PROVE Types'
<1> DEFINE e == Head(toEmthin)
<1>1. e \in HostEvents /\ Tail(toEmthin) \in Seq(HostEvents) /\ WlHandles(e)
  BY QueueSteps DEF DispatchDataControl, DispatchDataDevice, Types, QueuesOK
<1>2. /\ source' \in ClientCopies \cup {None} /\ offer' \in Copies \cup {None} /\ suppress' \in Nat
      /\ WlEmits(e) \in Seq(BridgeEvents)
      /\ WlEmits(e) # <<>> => Head(WlEmits(e)) \in BridgeEvents
      /\ Closes(e) => e.paste \in Pastes
  BY <1>1, WaylandTypes
<1> HIDE DEF e
<1>3. CASE DispatchDataControl
  <2>1. events \o WlEmits(e) \in Seq(BridgeEvents)
    BY <1>2, QueueSteps DEF Types, QueuesOK
  <2> QED
    BY <1>1, <1>2, <1>3, <2>1
    DEF e, DispatchDataControl, Types, TypeOK, QueuesOK, XTypes, xVars, bridgeVars
<1>4. CASE DispatchDataDevice
  <2>1. CASE WlEmits(e) # <<>>
    <3>1. Handle(Head(WlEmits(e)))
      BY <1>4, <2>1 DEF DispatchDataDevice, e
    <3>2. /\ origin' \in {"Wayland", "Host"}
          /\ seat' \in {NoSelection} \cup [by : {"client"}, sel : ClientCopies]
                         \cup [by : {"host"}, sel : Copies]
          /\ serving' \in [Pastes -> ClientCopies \cup {None}]
          /\ got' \in [Pastes -> Copies \cup {"idle", "waiting", "eof", "part"}]
      BY <3>1, <1>2, <2>1, HandleTypes
    <3> QED
      BY <1>1, <1>2, <1>4, <3>2
      DEF e, DispatchDataDevice, Types, TypeOK, QueuesOK, XTypes, xVars, NoSelection
  <2>2. CASE WlEmits(e) = <<>>
    BY <1>1, <1>2, <1>4, <2>2
    DEF e, DispatchDataDevice, Types, TypeOK, QueuesOK, XTypes, xVars, NoSelection
  <2> QED
    BY <2>1, <2>2
<1> QED
  BY <1>3, <1>4

\* What is written to properties and to pastes when an X11 event is handled.
LEMMA XCompleteTypes ==
  ASSUME Types, NEW f \in Pastes, NEW data \in Copies \cup {"eof", "part"}, XComplete(f, data)
  PROVE  /\ outgoing' \in [Pastes -> Copies \cup {"none", "asked", "open", "eof"}]
         /\ notified' \in [HostPastes -> Nat]
         /\ got' \in [Pastes -> Copies \cup {"idle", "waiting", "eof", "part"}]
         /\ prop' \in [Props -> Contents \cup {None}]
         /\ toEmthin' \in Seq(HostEvents)
<1> USE DEF Types, TypeOK, QueuesOK, XTypes
<1>1. outgoing' \in [Pastes -> Copies \cup {"none", "asked", "open", "eof"}]
  BY DEF XComplete, Retired
<1>2. CASE f \in HostPastes
  <2>1. /\ notified' = [notified EXCEPT ![f] = @ + 1]
        /\ got' \in {[got EXCEPT ![f] = data], [got EXCEPT ![f] = "part"]}
        /\ prop' = prop /\ toEmthin' = toEmthin
    <3> HIDE DEF Types, TypeOK, QueuesOK, XTypes
    <3> QED
      BY <1>2 DEF XComplete
  <2>2. got' \in [Pastes -> Copies \cup {"idle", "waiting", "eof", "part"}]
    BY <2>1
  <2>3. notified' \in [HostPastes -> Nat]
    BY <1>2, <2>1
  <2> QED
    BY <1>1, <2>1, <2>2, <2>3
<1>3. CASE f \notin HostPastes
  <2>1. NewValue("SEL") \in HostEvents /\ Notify("SEL", TRUE) \in HostEvents
    BY EventsConstructed DEF Props
  <2>2. toEmthin \o <<NewValue("SEL"), Notify("SEL", TRUE)>> \in Seq(HostEvents)
    BY <2>1, PairOfEvents
  <2>3. data \in Copies => Holds("data", data) \in Contents
    BY DEF Holds, Contents
  <2>4. /\ prop' = [prop EXCEPT !["SEL"] = IF data \in Copies THEN Holds("data", data) ELSE None]
        /\ toEmthin' = toEmthin \o <<NewValue("SEL"), Notify("SEL", TRUE)>>
        /\ UNCHANGED <<notified, got>>
    <3> HIDE DEF Types, TypeOK, QueuesOK, XTypes
    <3> QED
      BY <1>3 DEF XComplete, Answered
  <2>5. prop' \in [Props -> Contents \cup {None}]
    BY <2>3, <2>4 DEF Props
  <2> QED
    BY <1>1, <2>2, <2>4, <2>5
<1> QED
  BY <1>2, <1>3

LEMMA AnswerTypes ==
  ASSUME Types, toEmthin # <<>>,
         NEW f \in Pastes \cup {None}, NEW k \in Props, NEW ok \in BOOLEAN,
         NEW content \in Contents \cup {None}, NEW given \in {"eof", "part"},
         Answer(f, k, ok, content, given)
  PROVE  /\ notified' \in [HostPastes -> Nat]
         /\ got' \in [Pastes -> Copies \cup {"idle", "waiting", "eof", "part"}]
         /\ prop' \in [Props -> Contents \cup {None}]
         /\ toEmthin' \in Seq(HostEvents)
<1> USE DEF Types, TypeOK, QueuesOK, XTypes
<1>1. Tail(toEmthin) \in Seq(HostEvents)
  BY QueueSteps
<1>2. CASE f \in HostPastes
  <2>1. /\ notified' = [notified EXCEPT ![f] = @ + 1] /\ got' = [got EXCEPT ![f] = given]
        /\ toEmthin' = Tail(toEmthin) /\ prop' = prop
    <3> HIDE DEF Types, TypeOK, QueuesOK, XTypes
    <3> QED
      BY <1>2 DEF Answer
  <2>2. notified' \in [HostPastes -> Nat]
    BY <1>2, <2>1
  <2>3. got' \in [Pastes -> Copies \cup {"idle", "waiting", "eof", "part"}]
    BY <2>1
  <2> QED
    BY <1>1, <2>1, <2>2, <2>3
<1>3. CASE f \notin HostPastes
  <2>1. NewValue(k) \in HostEvents /\ Notify(k, ok) \in HostEvents
    BY EventsConstructed
  <2> DEFINE first == IF ok THEN <<NewValue(k)>> ELSE <<>>
  <2>2. first \in Seq(HostEvents) /\ <<Notify(k, ok)>> \in Seq(HostEvents)
    BY <2>1, <1>1, QueueSteps
  <2>3. Tail(toEmthin) \o first \in Seq(HostEvents)
    BY <1>1, <2>2, QueueSteps
  <2>4. (Tail(toEmthin) \o first) \o <<Notify(k, ok)>> \in Seq(HostEvents)
    BY <2>2, <2>3, QueueSteps
  <2>5. /\ notified' = notified /\ got' = got
        /\ prop' = IF ok THEN [prop EXCEPT ![k] = content] ELSE prop
        /\ toEmthin' = (Tail(toEmthin) \o first) \o <<Notify(k, ok)>>
    <3> HIDE DEF Types, TypeOK, QueuesOK, XTypes
    <3> QED
      BY <1>3 DEF Answer
  <2> HIDE DEF first
  <2>6. prop' \in [Props -> Contents \cup {None}]
    BY <2>5
  <2> QED
    BY <2>4, <2>5, <2>6
<1> QED
  BY <1>2, <1>3

LEMMA PartsCounted ==
  ASSUME NEW d \in [what : {"data"}, paste : ClientPastes, incr : BOOLEAN, parts : Nat]
  PROVE  d.paste \in ClientPastes /\ [d EXCEPT !.parts = @ + 1] \in Conversions
<1>1. [d EXCEPT !.parts = @ + 1]
        \in [what : {"data"}, paste : ClientPastes, incr : BOOLEAN, parts : Nat]
  OBVIOUS
<1> QED
  BY <1>1 DEF Conversions

LEMMA DispatchX11Types ==
  ASSUME Types, DispatchX11 PROVE Types'
<1> DEFINE e == Head(toEmthin)
<1> USE DEF Types, TypeOK, QueuesOK, XTypes, wlVars, bridgeVars
<1>0. /\ e \in HostEvents /\ Tail(toEmthin) \in Seq(HostEvents) /\ toEmthin # <<>>
      /\ UNCHANGED <<wlVars, bridgeVars, backend, hostOwner, made, incr>>
  BY QueueSteps DEF DispatchX11, XDispatch
<1> HIDE DEF e
<1>1. CASE OnAskAnswered(e)
  <2>1. e.prop \in Props /\ e.paste \in Pastes \cup {None}
    BY <1>0, <1>1, EventFields DEF OnAskAnswered
  <2>2. ours # None => Holds("targets", ours) \in Contents
    BY DEF Holds, Contents, Copies
  <2>3. /\ notified' \in [HostPastes -> Nat]
        /\ got' \in [Pastes -> Copies \cup {"idle", "waiting", "eof", "part"}]
        /\ prop' \in [Props -> Contents \cup {None}]
        /\ toEmthin' \in Seq(HostEvents)
    <3>1. CASE Answer(e.paste, e.prop, FALSE, None, "eof")
      BY <1>0, <2>1, <3>1, AnswerTypes
    <3>2. CASE ours # None /\ Answer(e.paste, e.prop, TRUE, Holds("targets", ours), "part")
      BY <1>0, <2>1, <2>2, <3>2, AnswerTypes
    <3> QED
      BY <1>1, <3>1, <3>2 DEF OnAskAnswered
  <2> QED
    BY <1>0, <1>1, <2>3 DEF OnAskAnswered
<1>2. CASE OnXfixes(e)
  <2>1. e.sel \in Copies \cup {None}
    BY <1>0, <1>2, EventFields DEF OnXfixes
  <2>2. Append(events, HostSelectionChanged(None)) \in Seq(BridgeEvents)
    BY Constructed, QueueSteps
  <2>3. Append(toHost, Convert("targets", "SEL", None)) \in Seq(Requests)
    BY Constructed, QueueSteps DEF Props
  <2>4. /\ [pending EXCEPT !["SEL"] = [what |-> "targets"]] \in [Props -> Conversions \cup {None}]
        /\ Displaced("SEL") \in [Pastes -> Copies \cup {"idle", "waiting", "eof", "part"}]
    BY DEF Conversions, Displaced
  <2>5. suppress' \in Nat
    BY <1>2 DEF OnXfixes
  <2>6. events' \in Seq(BridgeEvents) /\ toHost' \in Seq(Requests)
    BY <1>2, <2>2, <2>3 DEF OnXfixes
  <2>7. /\ pending' \in [Props -> Conversions \cup {None}]
        /\ got' \in [Pastes -> Copies \cup {"idle", "waiting", "eof", "part"}]
    BY <1>2, <2>4 DEF OnXfixes
  <2> QED
    BY <1>0, <1>2, <2>5, <2>6, <2>7 DEF OnXfixes
<1>3. CASE OnRefusal(e)
  BY <1>0, <1>3 DEF OnRefusal
<1>4. CASE OnAskData(e)
  <2>1. e.paste \in Pastes
    BY <1>0, <1>4, EventFields DEF OnAskData
  <2>2. events' \in Seq(BridgeEvents)
    BY <1>4, <2>1, Constructed, QueueSteps DEF OnAskData
  <2> QED
    BY <1>0, <1>4, <2>1, <2>2 DEF OnAskData
<1>5. CASE OnNotify(e)
  <2> DEFINE k == e.prop
             c == pending[k]
             header == prop[k] # None /\ prop[k].what = "header"
  <2>1. k \in Props
    BY <1>0, <1>5, EventFields DEF OnNotify
  <2>2. c \in Conversions \cup {None} /\ prop[k] \in Contents \cup {None}
    BY <2>1
  <2>3. IsData(k) => /\ c.paste \in ClientPastes
                     /\ [c EXCEPT !.incr = TRUE, !.parts = 0] \in Conversions
    BY <2>2 DEF IsData, Conversions
  <2>4. Bytes(k) \in Copies \cup {"eof", "part"}
    BY <2>2 DEF Bytes, Contents
  <2>5. \A v \in Contents : HostSelectionChanged(v.sel) \in BridgeEvents
    BY Constructed DEF Contents
  <2> HIDE DEF k
  <2>6. events' \in Seq(BridgeEvents)
    <3> DEFINE told == IF prop[k] # None /\ prop[k].what = "targets" THEN prop[k].sel ELSE None
    <3>1. HostSelectionChanged(told) \in BridgeEvents
      BY <2>2, <2>5, Constructed
    <3>2. Append(events, HostSelectionChanged(told)) \in Seq(BridgeEvents)
      BY <3>1, QueueSteps
    <3> QED
      BY <1>5, <3>2 DEF OnNotify, k
  <2>7. pending' \in [Props -> Conversions \cup {None}]
    BY <1>5, <2>3 DEF OnNotify, k
  <2>8. got' \in [Pastes -> Copies \cup {"idle", "waiting", "eof", "part"}]
    BY <1>5, <2>3, <2>4 DEF OnNotify, k
  <2> QED
    BY <1>0, <1>5, <2>6, <2>7, <2>8 DEF OnNotify
<1>6. CASE OnNewValue(e)
  <2> DEFINE k == e.prop
             c == pending[k]
             last == prop[k] = None \/ prop[k].what = "end"
  <2>1. k \in Props
    BY <1>0, <1>6, EventFields DEF OnNewValue
  <2>2. c \in Conversions \cup {None} /\ prop[k] \in Contents \cup {None}
    BY <2>1
  <2>3. IsData(k) => /\ c.paste \in ClientPastes
                     /\ [c EXCEPT !.parts = @ + 1] \in Conversions
    <3>1. IsData(k) => c \in [what : {"data"}, paste : ClientPastes, incr : BOOLEAN, parts : Nat]
      BY <2>2 DEF IsData, Conversions
    <3> HIDE DEF c
    <3> QED
      BY <3>1, PartsCounted
  <2>4. prop[k] # None => prop[k].sel \in Copies
    BY <2>2 DEF Contents
  <2>5. CASE IsData(k) /\ c.incr
    <3>1. pending' \in [Props -> Conversions \cup {None}]
      BY <1>6, <2>3, <2>5 DEF OnNewValue
    <3>2. got' \in [Pastes -> Copies \cup {"idle", "waiting", "eof", "part"}]
      BY <1>6, <2>4, <2>5 DEF OnNewValue
    <3> QED
      BY <1>0, <1>6, <2>5, <3>1, <3>2 DEF OnNewValue
  <2>6. CASE ~(IsData(k) /\ c.incr)
    BY <1>0, <1>6, <2>6 DEF OnNewValue
  <2> QED
    BY <2>5, <2>6
<1> QED
  BY <1>0, <1>1, <1>2, <1>3, <1>4, <1>5, <1>6 DEF DispatchX11, XDispatch, e

LEMMA TickTypes ==
  ASSUME Types, TickEvent PROVE Types'
<1> DEFINE x == Head(events)
<1> USE DEF Types, TypeOK, QueuesOK, XTypes
<1>0. x \in BridgeEvents /\ Tail(events) \in Seq(BridgeEvents)
  BY QueueSteps DEF TickEvent
<1>1. /\ events' = Tail(events)
      /\ UNCHANGED <<backend, hostOwner, suppress, toHost, wlVars, ours, pending, incr>>
  BY DEF TickEvent
<1>2. CASE backend = "x11" /\ x.type = "request"
  <2>1. HandleXRequest(x) /\ x.paste \in Pastes
    BY <1>0, <1>2, BridgeFields DEF TickEvent
  <2>2. origin' = origin /\ seat' = seat
    BY <2>1 DEF HandleXRequest
  <2>3. serving' \in [Pastes -> ClientCopies \cup {None}]
    <3>1. seat.by = "client" => seat.sel \in ClientCopies
      BY DEF NoSelection
    <3> QED
      BY <2>1, <3>1 DEF HandleXRequest, Forwards
  <2>4. CASE XComplete(x.paste, "eof")
    BY <1>0, <1>1, <2>1, <2>2, <2>3, <2>4, XCompleteTypes DEF wlVars
  <2>5. CASE /\ outgoing' = [outgoing EXCEPT ![x.paste] = IF Forwards(x.paste) THEN "open" ELSE "eof"]
             /\ UNCHANGED <<got, toEmthin, prop, notified>>
    BY <1>0, <1>1, <2>2, <2>3, <2>5 DEF wlVars
  <2> QED
    BY <2>1, <2>4, <2>5 DEF HandleXRequest
<1>3. CASE ~(backend = "x11" /\ x.type = "request")
  <2>1. Handle(x) /\ UNCHANGED <<toEmthin, prop, outgoing, notified>>
    BY <1>3 DEF TickEvent
  <2>2. /\ origin' \in {"Wayland", "Host"}
        /\ seat' \in {NoSelection} \cup [by : {"client"}, sel : ClientCopies]
                       \cup [by : {"host"}, sel : Copies]
        /\ serving' \in [Pastes -> ClientCopies \cup {None}]
        /\ got' \in [Pastes -> Copies \cup {"idle", "waiting", "eof", "part"}]
    BY <1>0, <2>1, HandleTypes
  <2> QED
    BY <1>0, <1>1, <2>1, <2>2 DEF wlVars, NoSelection
<1> QED
  BY <1>2, <1>3

LEMMA PipeTypes ==
  ASSUME Types, NEW f \in Pastes, PipeEnds(f) PROVE Types'
<1> USE DEF Types, TypeOK, QueuesOK, XTypes
<1>1. PICK data \in Copies \cup {"eof", "part"} : XComplete(f, data)
  BY DEF PipeEnds
<1>2. /\ outgoing' \in [Pastes -> Copies \cup {"none", "asked", "open", "eof"}]
      /\ notified' \in [HostPastes -> Nat]
      /\ got' \in [Pastes -> Copies \cup {"idle", "waiting", "eof", "part"}]
      /\ prop' \in [Props -> Contents \cup {None}]
      /\ toEmthin' \in Seq(HostEvents)
  BY <1>1, XCompleteTypes
<1> QED
  BY <1>2 DEF PipeEnds, wlVars, bridgeVars

LEMMA StutterTypes == Types /\ UNCHANGED vars => Types'
  BY DEF Types, TypeOK, QueuesOK, XTypes, vars, hostVars, wlVars, xVars, bridgeVars

LEMMA StepTypes == Types /\ [Next]_vars => Types'
<1> SUFFICES ASSUME Types, [Next]_vars PROVE Types'
  OBVIOUS
<1>1. CASE Progress
  <2>1. CASE HostAnswers \/ HostFeeds \/ \E f \in Pastes : ClientWrites(f) \/ PipeEnds(f)
    BY <2>1, HostTypes, HostStepTypes, ClientTypes, PipeTypes
  <2>2. CASE TickEvent \/ DispatchDataControl \/ DispatchDataDevice \/ DispatchX11
    BY <2>2, TickTypes, DispatchWaylandTypes, DispatchX11Types
  <2> QED
    BY <1>1, <2>1, <2>2 DEF Progress
<1>2. CASE \/ EmacsConnection \/ ClientClear \/ ClientSourceGone
           \/ \E c \in ClientCopies : ClientCopy(c)
           \/ \E p \in ClientPastes : ClientPaste(p)
  BY <1>2, ClientTypes
<1>3. CASE \/ HostOwnerGone \/ HostFocus \/ DeviceFinished
           \/ \E h \in HostCopies : HostAppCopy(h)
           \/ \E f \in HostPastes : HostAppPaste(f)
  BY <1>3, HostStepTypes, HostAppPasteTypes
<1>4. CASE UNCHANGED vars
  BY <1>4, StutterTypes
<1> QED
  BY <1>1, <1>2, <1>3, <1>4 DEF Next

LEMMA TypesInvariant == Spec => []Types
<1>1. Init => Types
  BY InitTypes
<1>2. Types /\ [Next]_vars => Types'
  BY StepTypes
<1> QED
  BY <1>1, <1>2, PTL DEF Spec

\* Every variable of the clipboard keeps its type: what is given to a paste and
\* kept for a request is a copy or one of the code's outcomes.
THEOREM ClipboardTypeCorrect == Spec => []TypeOK
<1>1. Types => TypeOK
  BY DEF Types
<1> QED
  BY <1>1, TypesInvariant, PTL

-----------------------------------------------------------------------------
(* A request of the host is at one place at a time                         *)

\* e asks us for the data of paste f: the event of the server, or, once it has
\* been dispatched, the one in the queue of the tick.
About(e, f) == e.type \in {"ask", "request"} /\ e.paste = f

Underway(q, f) == \E i \in 1 .. Len(q) : About(q[i], f)
Single(q, f) == \A i, j \in 1 .. Len(q) : About(q[i], f) /\ About(q[j], f) => i = j

\* The request of paste f is in the first queue, in the second one, at a pipe,
\* or has been answered, once.
Fate(f) ==
  /\ Single(toEmthin, f) /\ Single(events, f)
  /\ Underway(toEmthin, f) => outgoing[f] = "none" /\ notified[f] = 0 /\ got[f] # "idle"
  /\ Underway(events, f) => outgoing[f] = "asked"
  /\ outgoing[f] # "none" => notified[f] = 0 /\ got[f] # "idle"
  /\ notified[f] \in {0, 1}
  /\ notified[f] = 1 => got[f] # "idle"

NotifyInv ==
  IF backend = "x11" THEN \A f \in HostPastes : Fate(f)
  ELSE /\ \A f \in Pastes : outgoing[f] = "none"
       /\ \A f \in HostPastes : notified[f] = 0

\* No request of f comes into the queue.
Kept(q, r, f) == (Underway(r, f) => Underway(q, f)) /\ (Single(q, f) => Single(r, f))

LEMMA KeptByTail ==
  ASSUME NEW S, NEW q \in Seq(S), q # <<>>, NEW f
  PROVE  /\ Kept(q, Tail(q), f)
         /\ Single(q, f) /\ About(Head(q), f) => ~Underway(Tail(q), f)
<1>1. Len(Tail(q)) = Len(q) - 1 /\ \A i \in 1 .. Len(Tail(q)) : Tail(q)[i] = q[i + 1]
  OBVIOUS
<1>2. Len(q) \in Nat /\ Len(q) >= 1 /\ Head(q) = q[1]
  OBVIOUS
<1>3. \A i \in 1 .. Len(Tail(q)) : i + 1 \in 1 .. Len(q) /\ i + 1 # 1
  BY <1>1, <1>2
<1>4. Underway(Tail(q), f) => Underway(q, f)
  BY <1>1, <1>3 DEF Underway
<1>5. Single(q, f) => Single(Tail(q), f)
  <2> SUFFICES ASSUME Single(q, f), NEW i \in 1 .. Len(Tail(q)), NEW j \in 1 .. Len(Tail(q)),
                      About(Tail(q)[i], f), About(Tail(q)[j], f)
               PROVE  i = j
    BY DEF Single
  <2>1. i + 1 = j + 1
    BY <1>1, <1>3 DEF Single
  <2> QED
    BY <2>1, <1>1, <1>2
<1>6. Single(q, f) /\ About(Head(q), f) => ~Underway(Tail(q), f)
  <2> SUFFICES ASSUME Single(q, f), About(q[1], f), NEW i \in 1 .. Len(Tail(q)), About(Tail(q)[i], f)
               PROVE  FALSE
    BY <1>2 DEF Underway
  <2>1. 1 \in 1 .. Len(q) /\ i + 1 \in 1 .. Len(q) /\ About(q[i + 1], f)
    BY <1>1, <1>2, <1>3
  <2>2. 1 = i + 1
    BY <2>1 DEF Single
  <2> QED
    BY <2>2, <1>3
<1> QED
  BY <1>4, <1>5, <1>6 DEF Kept

LEMMA KeptByAppend ==
  ASSUME NEW S, NEW q \in Seq(S), NEW e \in S, NEW f
  PROVE  /\ ~About(e, f) => Kept(q, Append(q, e), f)
         /\ ~Underway(q, f) => Single(Append(q, e), f)
<1>1. /\ Len(q) \in Nat /\ Len(Append(q, e)) = Len(q) + 1 /\ Append(q, e)[Len(q) + 1] = e
      /\ \A i \in 1 .. Len(q) : Append(q, e)[i] = q[i]
  OBVIOUS
<1>2. \A i \in 1 .. Len(q) + 1 : i \in 1 .. Len(q) \/ i = Len(q) + 1
  BY <1>1
<1>3. ~About(e, f) => Kept(q, Append(q, e), f)
  BY <1>1, <1>2 DEF Kept, Underway, Single
<1>4. ~Underway(q, f) => Single(Append(q, e), f)
  BY <1>1, <1>2 DEF Underway, Single
<1> QED
  BY <1>3, <1>4

LEMMA TwoAppended ==
  ASSUME NEW S, NEW q \in Seq(S), NEW a \in S, NEW b \in S
  PROVE  (q \o <<a>>) \o <<b>> = q \o <<a, b>>
<1>1. \A r \in Seq(S), c \in S : r \o <<c>> = Append(r, c)
  OBVIOUS
<1>2. Append(q, a) \in Seq(S) /\ q \o <<a, b>> = Append(Append(q, a), b)
  OBVIOUS
<1> QED
  BY <1>1, <1>2

LEMMA KeptByPair ==
  ASSUME NEW S, NEW q \in Seq(S), NEW a \in S, NEW b \in S, NEW f, ~About(a, f), ~About(b, f)
  PROVE  Kept(q, q \o <<a, b>>, f)
<1>1. Append(q, a) \in Seq(S) /\ q \o <<a, b>> = Append(Append(q, a), b)
  OBVIOUS
<1>2. Kept(q, Append(q, a), f) /\ Kept(Append(q, a), Append(Append(q, a), b), f)
  BY <1>1, KeptByAppend
<1> QED
  BY <1>1, <1>2 DEF Kept

\* A step that adds no request of f and leaves its pipe and its answers alone.
LEMMA FateKept ==
  ASSUME NEW f, Fate(f), Kept(toEmthin, toEmthin', f), Kept(events, events', f),
         outgoing'[f] = outgoing[f], notified'[f] = notified[f], got'[f] = got[f]
  PROVE  Fate(f)'
  BY DEF Fate, Kept

LEMMA KeptByNothing == \A q, f : Kept(q, q, f)
  BY DEF Kept

\* Apart from requests, no event is about a paste of the host.
LEMMA OthersSilent ==
  ASSUME NEW f
  PROVE  /\ \A c : ~About(Xfixes(c), f)
         /\ \A k : ~About(NewValue(k), f)
         /\ \A k, ok : ~About(Notify(k, ok), f)
         /\ \A c : ~About(HostSelectionChanged(c), f)
         /\ \A p, t, k : p # f => ~About(Ask(p, t, k), f)
         /\ \A p : p # f => ~About(HostSendRequest(p), f)
  BY DEF About, Xfixes, NewValue, Notify, HostSelectionChanged, Ask, HostSendRequest

\* The server and the host's applications send requests of their own only.
LEMMA ServerKeepsFate ==
  ASSUME Types, backend = "x11", NEW f \in HostPastes, Fate(f),
         \/ HostAnswers \/ HostFeeds \/ HostOwnerGone \/ HostFocus \/ DeviceFinished
         \/ \E h \in HostCopies : HostAppCopy(h)
  PROVE  Fate(f)'
<1>1. /\ toEmthin \in Seq(HostEvents)
      /\ \A e \in HostEvents : ~About(e, f) => Kept(toEmthin, Append(toEmthin, e), f)
  BY KeptByAppend DEF Types, QueuesOK
<1>2. /\ \A c \in Copies \cup {None} : Kept(toEmthin, Append(toEmthin, Xfixes(c)), f)
      /\ \A k \in Props, ok \in BOOLEAN : Kept(toEmthin, Append(toEmthin, Notify(k, ok)), f)
      /\ \A k \in Props : Kept(toEmthin, Append(toEmthin, NewValue(k)), f)
  BY <1>1, OthersSilent, EventsConstructed
<1>3. events' = events /\ UNCHANGED <<outgoing, notified, got>>
  BY DEF HostAnswers, HostSets, HostReceives, XSets, XConverts, HostFeeds, XFeeds, HostOwnerGone,
     HostOwnerQuits, XOwnerQuits, HostFocus, HostFocusIn, HostFocusOut, DeviceFinished, HostFinishes,
     HostAppCopy, HostAppCopies, XAppCopies, Wayland, xVars, bridgeVars
<1>4. Kept(toEmthin, toEmthin', f)
  <2>1. CASE HostAnswers /\ XSets
    <3>1. Head(toHost).sel \in Copies \cup {None}
      BY <2>1, QueueSteps, RequestFields DEF XSets, Types, QueuesOK, Copies
    <3> QED
      BY <2>1, <3>1, <1>2 DEF XSets
  <2>2. CASE HostAnswers /\ XConverts
    <3> DEFINE r == Head(toHost)
    <3>1. /\ r.prop \in Props /\ r.target \in {"targets", "data"}
          /\ r.paste \in ClientPastes \/ (r.paste = None /\ r.target = "targets")
      BY <2>2, QueueSteps, RequestFields DEF XConverts, Types, QueuesOK
    <3>2. Ask(r.paste, r.target, r.prop) \in HostEvents /\ r.paste # f
      BY <3>1, EventsConstructed, CopiesAssumption DEF Pastes
    <3>3. Kept(toEmthin, Append(toEmthin, Ask(r.paste, r.target, r.prop)), f)
      BY <3>2, <1>1, OthersSilent
    <3>4. NewValue(r.prop) \in HostEvents /\ Notify(r.prop, TRUE) \in HostEvents
      BY <3>1, EventsConstructed
    <3>5. Kept(toEmthin, toEmthin \o <<NewValue(r.prop), Notify(r.prop, TRUE)>>, f)
      BY <3>4, <1>1, OthersSilent, KeptByPair
    <3>6. toEmthin' \in {Append(toEmthin, Notify(r.prop, FALSE)),
                         Append(toEmthin, Ask(r.paste, r.target, r.prop)),
                         toEmthin \o <<NewValue(r.prop), Notify(r.prop, TRUE)>>}
      BY <2>2 DEF XConverts, Answered
    <3> QED
      BY <3>1, <3>3, <3>5, <3>6, <1>2
  <2>3. CASE HostFeeds
    BY <2>3, <1>2 DEF HostFeeds, XFeeds, Props
  <2>4. CASE HostOwnerGone
    BY <2>4, <1>2 DEF HostOwnerGone, Wayland, XOwnerQuits
  <2>5. ASSUME NEW h \in HostCopies, HostAppCopy(h) PROVE Kept(toEmthin, toEmthin', f)
    BY <2>5, <1>2 DEF HostAppCopy, Wayland, XAppCopies, Copies
  <2>6. CASE HostFocus \/ DeviceFinished
    BY <2>6 DEF HostFocus, HostFocusIn, HostFocusOut, DeviceFinished, HostFinishes
  <2> QED
    BY <2>1, <2>2, <2>3, <2>4, <2>5, <2>6 DEF HostAnswers, Wayland
<1> QED
  BY <1>3, <1>4, FateKept, KeptByNothing

\* A conversion that is displaced was for a client.
LEMMA DisplacedIsClients ==
  ASSUME Types, NEW f \in HostPastes, NEW k \in Props
  PROVE  /\ Displaced(k)[f] = got[f]
         /\ Displaced(k) \in [Pastes -> Copies \cup {"idle", "waiting", "eof", "part"}]
<1>1. IsData(k) => pending[k].paste \in ClientPastes
  BY DEF Types, XTypes, IsData, Conversions
<1>2. f \notin ClientPastes /\ f \in Pastes
  BY CopiesAssumption DEF Pastes
<1> QED
  BY <1>1, <1>2 DEF Displaced, Types, TypeOK

\* So do the clients: what they paste, and what displaces their pastes, is not
\* the host's; a client that writes closes a pipe that is open.
LEMMA ClientsKeepFate ==
  ASSUME Types, backend = "x11", NEW f \in HostPastes, Fate(f),
         \/ EmacsConnection \/ ClientClear \/ ClientSourceGone
         \/ \E c \in ClientCopies : ClientCopy(c)
         \/ \E p \in ClientPastes : ClientPaste(p)
         \/ \E p \in Pastes : ClientWrites(p)
  PROVE  Fate(f)'
<1>1. ASSUME NEW c, SetHost(c) PROVE UNCHANGED <<outgoing, notified>>
  BY <1>1 DEF SetHost, XSet, Wayland
<1>2. CASE EmacsConnection \/ ClientClear \/ ClientSourceGone \/ \E c \in ClientCopies : ClientCopy(c)
  <2>1. UNCHANGED <<toEmthin, events, got>>
    BY <1>2 DEF EmacsConnection, ClientClear, ClientSourceGone, ClientCopy, hostVars
  <2>2. UNCHANGED <<outgoing, notified>>
    BY <1>1, <1>2 DEF EmacsConnection, ClientClear, ClientSourceGone, ClientCopy, xVars
  <2> QED
    BY <2>1, <2>2, FateKept, KeptByNothing
<1>3. ASSUME NEW p \in ClientPastes, ClientPaste(p) PROVE Fate(f)'
  <2>1. UNCHANGED <<toEmthin, events, outgoing, notified>>
    BY <1>3 DEF ClientPaste
  <2>2. f # p /\ f \in Pastes /\ p \in Pastes
    BY CopiesAssumption DEF Pastes
  <2>3. /\ Displaced("SEL")[f] = got[f]
        /\ Displaced("SEL") \in [Pastes -> Copies \cup {"idle", "waiting", "eof", "part"}]
    BY DisplacedIsClients DEF Props
  <2>4. got'[f] = got[f]
    <3>1. CASE XReceive(p)
      BY <2>2, <2>3, <3>1 DEF XReceive, Types, TypeOK
    <3>2. CASE got' = [got EXCEPT ![p] = "eof"]
      BY <2>2, <3>2 DEF Types, TypeOK
    <3> QED
      BY <1>3, <3>1, <3>2 DEF ClientPaste
  <2> QED
    BY <2>1, <2>4, FateKept, KeptByNothing
<1>4. ASSUME NEW p \in Pastes, ClientWrites(p) PROVE Fate(f)'
  <2>1. UNCHANGED <<toEmthin, events, got, notified>>
    BY <1>4 DEF ClientWrites
  <2>2. outgoing'[f] = outgoing[f] \/ outgoing[f] = "open"
    BY <1>4 DEF ClientWrites, Types, TypeOK, Pastes
  <2>3. CASE outgoing'[f] = outgoing[f]
    BY <2>1, <2>3, FateKept, KeptByNothing
  <2>4. CASE outgoing[f] = "open"
    BY <2>1, <2>4 DEF Fate
  <2> QED
    BY <2>2, <2>3, <2>4
<1> QED
  BY <1>2, <1>3, <1>4

\* An application that has not pasted has no request anywhere.
LEMMA PasteFate ==
  ASSUME Types, backend = "x11", NEW f \in HostPastes, Fate(f),
         NEW g \in HostPastes, HostAppPaste(g)
  PROVE  Fate(f)'
<1>1. f \in Pastes /\ g \in Pastes
  BY DEF Pastes
<1>2. PICK t \in {"targets", "data", "unknown"} : XAppPastes(g, t)
  BY DEF HostAppPaste, Wayland
<1>3. /\ toEmthin' = Append(toEmthin, Ask(g, t, "SEL")) /\ events' = events
      /\ got' = [got EXCEPT ![g] = "waiting"] /\ got[g] = "idle"
      /\ UNCHANGED <<outgoing, notified>>
  BY <1>2 DEF XAppPastes, HostAppPaste, wlVars, xVars
<1>4. toEmthin \in Seq(HostEvents) /\ Ask(g, t, "SEL") \in HostEvents
  BY <1>1, EventsConstructed DEF Types, QueuesOK, Props
<1>5. CASE f # g
  <2>1. Kept(toEmthin, toEmthin', f)
    BY <1>3, <1>4, <1>5, KeptByAppend, OthersSilent
  <2>2. got'[f] = got[f]
    BY <1>1, <1>3, <1>5 DEF Types, TypeOK
  <2> QED
    BY <1>3, <2>1, <2>2, FateKept, KeptByNothing
<1>6. CASE f = g
  <2>1. ~Underway(toEmthin, f) /\ outgoing[f] = "none" /\ notified[f] = 0 /\ ~Underway(events, f)
    BY <1>3, <1>6 DEF Fate
  <2>2. Single(toEmthin', f)
    BY <1>3, <1>4, <2>1, KeptByAppend
  <2>3. got'[f] # "idle"
    BY <1>1, <1>3, <1>6 DEF Types, TypeOK
  <2> QED
    BY <1>3, <2>1, <2>2, <2>3 DEF Fate
<1> QED
  BY <1>5, <1>6

\* complete_outgoing for g, when its request is at a pipe.
LEMMA CompleteFate ==
  ASSUME Types, NEW f \in HostPastes, Fate(f), NEW g \in Pastes,
         NEW data \in Copies \cup {"eof", "part"}, XComplete(g, data),
         Kept(events, events', f),
         g = f => outgoing[f] # "none" /\ ~Underway(events', f)
  PROVE  Fate(f)'
<1>1. toEmthin \in Seq(HostEvents) /\ NewValue("SEL") \in HostEvents /\ Notify("SEL", TRUE) \in HostEvents
  BY EventsConstructed DEF Types, QueuesOK, Props
<1>2. Kept(toEmthin, toEmthin', f)
  <2>1. Kept(toEmthin, toEmthin \o <<NewValue("SEL"), Notify("SEL", TRUE)>>, f)
    BY <1>1, OthersSilent, KeptByPair
  <2> QED
    BY <2>1, KeptByNothing DEF XComplete, Answered
<1>3. outgoing' = [outgoing EXCEPT ![g] = "none"]
  BY DEF XComplete, Retired
<1>4. CASE g # f
  <2>1. outgoing'[f] = outgoing[f]
    BY <1>3, <1>4 DEF Types, TypeOK
  <2>2. notified'[f] = notified[f] /\ got'[f] = got[f]
    <3>1. CASE g \in HostPastes
      BY <1>4, <3>1 DEF XComplete, Types, TypeOK, XTypes, Pastes
    <3>2. CASE g \notin HostPastes
      BY <3>2 DEF XComplete
    <3> QED
      BY <3>1, <3>2
  <2> QED
    BY <1>2, <2>1, <2>2, FateKept
<1>5. CASE g = f
  <2>1. /\ ~Underway(toEmthin, f) /\ notified[f] = 0
    BY <1>5 DEF Fate
  <2>2. notified'[f] = 1 /\ outgoing'[f] = "none"
    BY <1>3, <1>5, <2>1 DEF XComplete, Types, TypeOK, XTypes, Pastes
  <2>3. got'[f] # "idle"
    <3>1. data # "idle"
      BY CopiesAssumption DEF Copies
    <3>2. got' \in {[got EXCEPT ![f] = data], [got EXCEPT ![f] = "part"]}
      BY <1>5 DEF XComplete
    <3> QED
      BY <3>1, <3>2 DEF Types, TypeOK, Pastes
  <2> QED
    BY <1>2, <1>5, <2>1, <2>2, <2>3 DEF Fate, Kept
<1> QED
  BY <1>4, <1>5

LEMMA PipeFate ==
  ASSUME Types, NEW f \in HostPastes, Fate(f), NEW g \in Pastes, PipeEnds(g)
  PROVE  Fate(f)'
<1>1. PICK data \in Copies \cup {"eof", "part"} : XComplete(g, data)
  BY DEF PipeEnds, Types, TypeOK
<1>2. events' = events /\ outgoing[g] \notin {"none", "asked"}
  BY DEF PipeEnds
<1>3. g = f => ~Underway(events', f)
  BY <1>2 DEF Fate
<1> QED
  BY <1>1, <1>2, <1>3, CompleteFate, KeptByNothing

LEMMA TickFate ==
  ASSUME Types, backend = "x11", NEW f \in HostPastes, Fate(f), TickEvent
  PROVE  Fate(f)'
<1> DEFINE x == Head(events)
<1>1. /\ events \in Seq(BridgeEvents) /\ events # <<>> /\ events' = Tail(events)
      /\ x \in BridgeEvents
  BY QueueSteps DEF TickEvent, Types, QueuesOK
<1>2. /\ Kept(events, events', f)
      /\ About(x, f) => ~Underway(events', f) /\ outgoing[f] = "asked"
  <2>1. About(x, f) => Underway(events, f)
    <3>1. Len(events) \in Nat /\ 1 \in 1 .. Len(events) /\ Head(events) = events[1]
      BY <1>1
    <3> QED
      BY <3>1 DEF Underway
  <2>2. /\ Kept(events, Tail(events), f)
        /\ Single(events, f) /\ About(Head(events), f) => ~Underway(Tail(events), f)
    BY <1>1, KeptByTail
  <2> QED
    BY <1>1, <2>1, <2>2 DEF Fate
<1>3. CASE x.type = "request"
  <2>1. HandleXRequest(x) /\ x.paste \in Pastes
    BY <1>1, <1>3, BridgeFields DEF TickEvent
  <2>2. x.paste = f => ~Underway(events', f) /\ outgoing[f] = "asked"
    BY <1>2, <1>3 DEF About
  <2>3. CASE XComplete(x.paste, "eof")
    BY <1>2, <2>1, <2>2, <2>3, CompleteFate
  <2>4. CASE /\ outgoing' = [outgoing EXCEPT ![x.paste] = IF Forwards(x.paste) THEN "open" ELSE "eof"]
             /\ UNCHANGED <<got, toEmthin, prop, notified>>
    <3>1. CASE x.paste # f
      <4>1. outgoing'[f] = outgoing[f]
        BY <2>4, <3>1 DEF Types, TypeOK
      <4> QED
        BY <1>2, <2>4, <4>1, FateKept, KeptByNothing
    <3>2. CASE x.paste = f
      <4>1. notified[f] = 0 /\ got[f] # "idle" /\ ~Underway(toEmthin, f)
        BY <2>2, <3>2 DEF Fate
      <4> QED
        BY <1>2, <2>2, <2>4, <3>2, <4>1 DEF Fate, Kept
    <3> QED
      BY <3>1, <3>2
  <2> QED
    BY <2>1, <2>3, <2>4 DEF HandleXRequest
<1>4. CASE x.type # "request"
  <2>1. Handle(x) /\ UNCHANGED <<toEmthin, outgoing, notified>>
    BY <1>4 DEF TickEvent
  <2>2. got' = got
    BY <1>4, <2>1 DEF Handle, HandleChanged, HandleCancelled, HandleRequest
  <2> QED
    BY <1>2, <2>1, <2>2, FateKept, KeptByNothing
<1> QED
  BY <1>3, <1>4

\* An answer to g, whose request has just been taken off the queue.
LEMMA AnswerFate ==
  ASSUME Types, toEmthin # <<>>, NEW f \in HostPastes, Fate(f),
         NEW g, NEW k \in Props, NEW ok \in BOOLEAN, NEW content, NEW given \in {"eof", "part"},
         Answer(g, k, ok, content, given), UNCHANGED <<events, outgoing>>,
         Kept(toEmthin, Tail(toEmthin), f),
         g = f => ~Underway(Tail(toEmthin), f) /\ outgoing[f] = "none" /\ notified[f] = 0
  PROVE  Fate(f)'
<1>0. f \in Pastes /\ Tail(toEmthin) \in Seq(HostEvents)
  BY QueueSteps DEF Types, QueuesOK, Pastes
<1>1. CASE g \in HostPastes
  <2>1. /\ toEmthin' = Tail(toEmthin) /\ notified' = [notified EXCEPT ![g] = @ + 1]
        /\ got' = [got EXCEPT ![g] = given]
    BY <1>1 DEF Answer
  <2>2. CASE g # f
    <3>1. notified'[f] = notified[f] /\ got'[f] = got[f]
      BY <1>0, <2>1, <2>2 DEF Types, TypeOK, XTypes
    <3> QED
      BY <2>1, <3>1, FateKept, KeptByNothing
  <2>3. CASE g = f
    <3>1. notified'[f] = 1 /\ got'[f] # "idle"
      BY <1>0, <2>1, <2>3 DEF Types, TypeOK, XTypes
    <3> QED
      BY <2>1, <2>3, <3>1 DEF Fate, Kept
  <2> QED
    BY <2>2, <2>3
<1>2. CASE g \notin HostPastes
  <2> DEFINE first == IF ok THEN <<NewValue(k)>> ELSE <<>>
             value == NewValue(k)
             note == Notify(k, ok)
  <2>1. toEmthin' = (Tail(toEmthin) \o first) \o <<note>> /\ UNCHANGED <<notified, got>>
    BY <1>2 DEF Answer
  <2>2. /\ value \in HostEvents /\ note \in HostEvents
        /\ ~About(value, f) /\ ~About(note, f)
    BY EventsConstructed, OthersSilent
  <2>3. Kept(Tail(toEmthin), toEmthin', f)
    <3>1. CASE ok
      <4>1. first = <<value>>
        BY <3>1
      <4> HIDE DEF note, value, first
      <4>2. toEmthin' = Tail(toEmthin) \o <<value, note>>
        BY <1>0, <2>1, <2>2, <4>1, TwoAppended
      <4> QED
        BY <1>0, <2>2, <4>2, KeptByPair
    <3>2. CASE ~ok
      <4>1. first = <<>>
        BY <3>2
      <4> HIDE DEF note, value, first
      <4>2. toEmthin' = Append(Tail(toEmthin), note)
        BY <1>0, <2>1, <2>2, <4>1
      <4> QED
        BY <1>0, <2>2, <4>2, KeptByAppend
    <3> QED
      BY <3>1, <3>2
  <2>4. Kept(toEmthin, toEmthin', f)
    BY <2>3 DEF Kept
  <2> QED
    BY <2>1, <2>4, FateKept, KeptByNothing
<1> QED
  BY <1>1, <1>2

\* An event taken off the queue of the backend: what is said of it here holds
\* of each of its handlers.
LEMMA DispatchFate ==
  ASSUME Types, backend = "x11", NEW f \in HostPastes, Fate(f), DispatchX11
  PROVE  Fate(f)'
<1> DEFINE e == Head(toEmthin)
<1>1. /\ toEmthin \in Seq(HostEvents) /\ toEmthin # <<>> /\ e \in HostEvents
      /\ Tail(toEmthin) \in Seq(HostEvents) /\ events \in Seq(BridgeEvents)
  BY QueueSteps DEF DispatchX11, XDispatch, Types, QueuesOK
<1>2. /\ Kept(toEmthin, Tail(toEmthin), f)
      /\ About(e, f) => /\ ~Underway(Tail(toEmthin), f)
                        /\ outgoing[f] = "none" /\ notified[f] = 0 /\ got[f] # "idle"
  <2>1. About(e, f) => Underway(toEmthin, f)
    <3>1. Len(toEmthin) \in Nat /\ 1 \in 1 .. Len(toEmthin) /\ e = toEmthin[1]
      BY <1>1
    <3> QED
      BY <3>1 DEF Underway
  <2>2. /\ Kept(toEmthin, Tail(toEmthin), f)
        /\ Single(toEmthin, f) /\ About(e, f) => ~Underway(Tail(toEmthin), f)
    BY <1>1, KeptByTail
  <2> QED
    BY <2>1, <2>2 DEF Fate
<1>3. \A c \in Copies \cup {None} : Kept(events, Append(events, HostSelectionChanged(c)), f)
  BY <1>1, Constructed, OthersSilent, KeptByAppend
<1> HIDE DEF e
<1>4. CASE OnXfixes(e)
  <2>1. toEmthin' = Tail(toEmthin) /\ UNCHANGED <<outgoing, notified>>
    BY <1>4 DEF OnXfixes
  <2>2. Kept(events, events', f)
    BY <1>3, <1>4, KeptByNothing DEF OnXfixes
  <2>3. got'[f] = got[f]
    BY <1>4, DisplacedIsClients DEF OnXfixes, Props
  <2> QED
    BY <1>2, <2>1, <2>2, <2>3, FateKept
<1>5. CASE OnRefusal(e)
  BY <1>2, <1>5, FateKept, KeptByNothing DEF OnRefusal
<1>6. CASE OnNotify(e) \/ OnNewValue(e)
  <2>1. toEmthin' = Tail(toEmthin) /\ UNCHANGED <<outgoing, notified>> /\ e.prop \in Props
    BY <1>1, <1>6, EventFields DEF OnNotify, OnNewValue
  <2>2. Kept(events, events', f)
    <3>1. \A k \in Props : prop[k] # None => prop[k].sel \in Copies
      BY DEF Types, XTypes, Contents
    <3>2. CASE OnNotify(e)
      <4> DEFINE told == IF prop[e.prop] # None /\ prop[e.prop].what = "targets"
                         THEN prop[e.prop].sel ELSE None
      <4>1. told \in Copies \cup {None}
        BY <2>1, <3>1
      <4>2. events' \in {events, Append(events, HostSelectionChanged(told))}
        BY <3>2 DEF OnNotify
      <4> QED
        BY <1>3, <4>1, <4>2, KeptByNothing
    <3>3. CASE OnNewValue(e)
      BY <3>3, KeptByNothing DEF OnNewValue
    <3> QED
      BY <1>6, <3>2, <3>3
  <2>3. got'[f] = got[f]
    <3>1. IsData(e.prop) => pending[e.prop].paste \in ClientPastes
      BY <2>1 DEF Types, XTypes, IsData, Conversions
    <3>2. f \notin ClientPastes /\ f \in Pastes
      BY CopiesAssumption DEF Pastes
    <3>3. CASE OnNotify(e)
      BY <3>1, <3>2, <3>3 DEF OnNotify, Types, TypeOK
    <3>4. CASE OnNewValue(e)
      BY <3>1, <3>2, <3>4 DEF OnNewValue, Types, TypeOK
    <3> QED
      BY <1>6, <3>3, <3>4
  <2> QED
    BY <1>2, <2>1, <2>2, <2>3, FateKept
<1>7. CASE OnAskData(e)
  <2>1. /\ toEmthin' = Tail(toEmthin) /\ outgoing' = [outgoing EXCEPT ![e.paste] = "asked"]
        /\ events' = Append(events, HostSendRequest(e.paste))
        /\ UNCHANGED <<got, notified>> /\ e.type = "ask" /\ e.paste \in Pastes
    BY <1>1, <1>7, EventFields DEF OnAskData
  <2>2. HostSendRequest(e.paste) \in BridgeEvents
    BY <2>1, Constructed
  <2>3. CASE e.paste # f
    <3>1. ~About(HostSendRequest(e.paste), f)
      BY <2>3, OthersSilent
    <3>2. Kept(events, events', f)
      BY <1>1, <2>1, <2>2, <3>1, KeptByAppend
    <3>3. outgoing'[f] = outgoing[f]
      BY <2>1, <2>3 DEF Types, TypeOK
    <3> QED
      BY <1>2, <2>1, <3>2, <3>3, FateKept
  <2>4. CASE e.paste = f
    <3>1. /\ ~Underway(Tail(toEmthin), f)
          /\ outgoing[f] = "none" /\ notified[f] = 0 /\ got[f] # "idle"
      BY <1>2, <2>1, <2>4 DEF About
    <3>2. Single(events', f)
      BY <1>1, <2>1, <2>2, <3>1, KeptByAppend DEF Fate
    <3>3. outgoing'[f] = "asked"
      BY <2>1, <2>4 DEF Types, TypeOK, Pastes
    <3> QED
      BY <1>2, <2>1, <3>1, <3>2, <3>3 DEF Fate, Kept
  <2> QED
    BY <2>3, <2>4
<1>8. CASE OnAskAnswered(e)
  <2>1. e.type = "ask" /\ UNCHANGED <<events, outgoing>> /\ e.prop \in Props
    BY <1>1, <1>8, EventFields DEF OnAskAnswered
  <2>2. About(e, f) <=> e.paste = f
    BY <2>1 DEF About
  <2>3. CASE Answer(e.paste, e.prop, FALSE, None, "eof")
    BY <1>1, <1>2, <2>1, <2>2, <2>3, AnswerFate
  <2>4. CASE Answer(e.paste, e.prop, TRUE, Holds("targets", ours), "part")
    BY <1>1, <1>2, <2>1, <2>2, <2>4, AnswerFate
  <2> QED
    BY <1>8, <2>3, <2>4 DEF OnAskAnswered
<1> QED
  BY <1>4, <1>5, <1>6, <1>7, <1>8 DEF DispatchX11, XDispatch, e

\* Without X11 nothing is asked of a window and nothing notified.
LEMMA OthersNotify ==
  ASSUME Types, NotifyInv, backend # "x11", [Next]_vars
  PROVE  NotifyInv'
<1>1. UNCHANGED <<backend, outgoing, notified>>
  <2>1. ASSUME NEW c, SetHost(c) PROVE UNCHANGED <<outgoing, notified>>
    BY <2>1 DEF SetHost, xVars
  <2>2. CASE EmacsConnection \/ ClientClear \/ ClientSourceGone \/ \E c \in ClientCopies : ClientCopy(c)
    BY <2>1, <2>2 DEF EmacsConnection, ClientClear, ClientSourceGone, ClientCopy, hostVars, xVars
  <2>3. CASE \/ \E p \in ClientPastes : ClientPaste(p)
             \/ \E p \in Pastes : ClientWrites(p)
             \/ \E p \in HostPastes : HostAppPaste(p)
    BY <2>3 DEF ClientPaste, ClientWrites, HostAppPaste, HostAppPastes, xVars
  <2>4. CASE \E p \in Pastes : PipeEnds(p)
    BY <2>4 DEF PipeEnds, NotifyInv
  <2>5. CASE TickEvent \/ DispatchDataControl \/ DispatchDataDevice \/ DispatchX11
    BY <2>5 DEF TickEvent, DispatchDataControl, DispatchDataDevice, DispatchX11, xVars
  <2>6. CASE \/ HostAnswers \/ HostFeeds \/ HostOwnerGone \/ HostFocus \/ DeviceFinished
             \/ \E h \in HostCopies : HostAppCopy(h)
    BY <2>6 DEF HostAnswers, HostSets, HostReceives, HostFeeds, HostOwnerGone, HostOwnerQuits,
       HostFocus, HostFocusIn, HostFocusOut, DeviceFinished, HostFinishes, HostAppCopy,
       HostAppCopies, xVars
  <2>7. CASE UNCHANGED vars
    BY <2>7 DEF vars, hostVars, xVars
  <2> QED
    BY <2>2, <2>3, <2>4, <2>5, <2>6, <2>7 DEF Next, Progress
<1> QED
  BY <1>1 DEF NotifyInv

\* init() chooses the backend for good.
LEMMA BackendStays == ASSUME [Next]_vars PROVE backend' = backend
<1>1. CASE EmacsConnection \/ ClientClear \/ ClientSourceGone \/ \E c \in ClientCopies : ClientCopy(c)
  BY <1>1 DEF EmacsConnection, ClientClear, ClientSourceGone, ClientCopy, hostVars
<1>2. CASE \/ \E p \in ClientPastes : ClientPaste(p)
           \/ \E p \in Pastes : ClientWrites(p) \/ PipeEnds(p)
           \/ \E p \in HostPastes : HostAppPaste(p)
  BY <1>2 DEF ClientPaste, ClientWrites, PipeEnds, HostAppPaste, HostAppPastes, XAppPastes
<1>3. CASE TickEvent \/ DispatchDataControl \/ DispatchDataDevice \/ DispatchX11
  BY <1>3 DEF TickEvent, DispatchDataControl, DispatchDataDevice, DispatchX11, XDispatch
<1>4. CASE \/ HostAnswers \/ HostFeeds \/ HostOwnerGone \/ HostFocus \/ DeviceFinished
           \/ \E h \in HostCopies : HostAppCopy(h)
  BY <1>4 DEF HostAnswers, HostSets, HostReceives, XSets, XConverts, HostFeeds, XFeeds,
     HostOwnerGone, HostOwnerQuits, XOwnerQuits, HostFocus, HostFocusIn, HostFocusOut,
     DeviceFinished, HostFinishes, HostAppCopy, HostAppCopies, XAppCopies
<1>5. CASE UNCHANGED vars
  BY <1>5 DEF vars, hostVars
<1> QED
  BY <1>1, <1>2, <1>3, <1>4, <1>5 DEF Next, Progress

LEMMA NotifyStep == Types /\ NotifyInv /\ [Next]_vars => NotifyInv'
<1> SUFFICES ASSUME Types, NotifyInv, [Next]_vars PROVE NotifyInv'
  OBVIOUS
<1>1. CASE backend = "x11"
  <2> SUFFICES ASSUME NEW f \in HostPastes PROVE Fate(f)'
    BY <1>1, BackendStays DEF NotifyInv
  <2>0. Fate(f)
    BY <1>1 DEF NotifyInv
  <2>1. CASE Progress
    <3>1. CASE DispatchX11 \/ TickEvent
      BY <1>1, <2>0, <3>1, DispatchFate, TickFate
    <3>2. CASE HostAnswers \/ HostFeeds
      BY <1>1, <2>0, <3>2, ServerKeepsFate
    <3>3. ASSUME NEW g \in Pastes, ClientWrites(g) \/ PipeEnds(g) PROVE Fate(f)'
      BY <1>1, <2>0, <3>3, ClientsKeepFate, PipeFate
    <3>4. ~DispatchDataControl /\ ~DispatchDataDevice
      BY <1>1 DEF DispatchDataControl, DispatchDataDevice
    <3> QED
      BY <2>1, <3>1, <3>2, <3>3, <3>4 DEF Progress
  <2>2. CASE \/ EmacsConnection \/ ClientClear \/ ClientSourceGone
             \/ \E c \in ClientCopies : ClientCopy(c)
             \/ \E p \in ClientPastes : ClientPaste(p)
    BY <1>1, <2>0, <2>2, ClientsKeepFate
  <2>3. CASE \/ HostOwnerGone \/ HostFocus \/ DeviceFinished
             \/ \E h \in HostCopies : HostAppCopy(h)
    BY <1>1, <2>0, <2>3, ServerKeepsFate
  <2>4. CASE \E g \in HostPastes : HostAppPaste(g)
    BY <1>1, <2>0, <2>4, PasteFate
  <2>5. CASE UNCHANGED vars
    BY <2>0, <2>5, FateKept, KeptByNothing DEF vars, hostVars, xVars
  <2> QED
    BY <2>1, <2>2, <2>3, <2>4, <2>5 DEF Next
<1>2. CASE backend # "x11"
  BY <1>2, OthersNotify
<1> QED
  BY <1>1, <1>2

LEMMA NotifyInit == Init => NotifyInv
<1> SUFFICES ASSUME Init PROVE NotifyInv
  OBVIOUS
<1>1. Types
  BY InitTypes
<1>2. ASSUME NEW f \in HostPastes PROVE Fate(f)
  <2>1. toEmthin = <<>> /\ outgoing[f] = "none" /\ notified[f] = 0
    BY DEF Init, Pastes
  <2>2. ~Underway(toEmthin, f) /\ Single(toEmthin, f)
    BY <2>1 DEF Underway, Single
  <2>3. ~Underway(events, f) /\ Single(events, f)
    <3>1. events = <<>> \/ \E c : events = <<HostSelectionChanged(c)>>
      BY DEF Init
    <3>2. ASSUME NEW i \in 1 .. Len(events) PROVE ~About(events[i], f)
      BY <3>1, <3>2 DEF About, HostSelectionChanged
    <3> QED
      BY <3>2 DEF Underway, Single
  <2> QED
    BY <2>1, <2>2, <2>3 DEF Fate
<1>3. \A f \in Pastes : outgoing[f] = "none"
  BY DEF Init
<1>4. \A f \in HostPastes : notified[f] = 0
  BY DEF Init
<1> QED
  BY <1>2, <1>3, <1>4 DEF NotifyInv

\* A window of the host that asks for what a client copied is notified at most
\* once: neither a pipe that fails, nor one that is drained late, nor a refusal
\* adds an answer.
THEOREM NotifiedOnceCorrect == Spec => []NotifiedOnce
<1>1. Types /\ NotifyInv => NotifiedOnce
  BY DEF NotifyInv, NotifiedOnce, Fate
<1>2. Spec => [](Types /\ NotifyInv)
  <2>1. Init => Types /\ NotifyInv
    BY InitTypes, NotifyInit
  <2>2. (Types /\ NotifyInv) /\ [Next]_vars => (Types /\ NotifyInv)'
    BY StepTypes, NotifyStep
  <2> QED
    BY <2>1, <2>2, PTL DEF Spec
<1> QED
  BY <1>1, <1>2, PTL

=============================================================================
