---------------------------- MODULE InputMethods ----------------------------
(* The compositor's bridge to input methods (ImeBridge) and the D-Bus router *)
(* (FcitxRouter), joined by their two channels. The router's notifications   *)
(* are of two kinds in one channel; the tick drains it twice, once for each  *)
(* kind, and each drain drops the other kind.                                *)
EXTENDS FcitxRouter

CONSTANTS
  Texts,                   \* text of the host's input method, to commit or as preedit
  Surfaces, Rects, MaxHost,
  Budgets                  \* bounds: what the outside may do in one behaviour

\* A surface, a context, a caret and their absence are told apart.
ASSUME NamesAssumption ==
  /\ None \notin Surfaces \cup Paths \cup Rects
  /\ Surfaces \cap Paths = {}
  /\ None \notin [origin : Surfaces \cup {None}, rect : Rects \cup {"corner"}]

\* The calls that are events name a context, and a caret when it is one.
ASSUME CallsAssumption ==
  \A m \in Calls : Classified(m) =>
    /\ m.method \in {"FocusIn", "FocusOut", "SetCursorRect", "DestroyIC"} => m.path \in Paths
    /\ m.method = "SetCursorRect" => m.rect \in Rects

ASSUME TextsAssumption ==
  Texts \subseteq [kind : {"commit"}] \cup [kind : {"preedit"}, length : Nat, begin : Int, end : Int]

ASSUME BudgetsAssumption ==
  Budgets \subseteq [calls : Nat, asks : Nat, focus : Nat, reports : Nat]

VARIABLES
  ime, applied, ti, bound, entered, kbFocus, host, hostEvents, reported, forgotten, focusChanges,
  reports,
  connected,               \* DbusBridge holds its ends of the channels
  half,                    \* where the tick is: before the fcitx events, at them, or at the rest
  batch,                   \* fcitx events the tick has taken and not handled yet
  wantsIme,                \* contexts whose last event seen was that they have the focus
  sent,                    \* history: carets of contexts, from the router since the last switch
  late                     \* history: those that were still in the channel at it

imVars == <<ime, applied, ti, bound, entered, kbFocus, host, hostEvents, reported,
            forgotten, focusChanges, reports>>
linkVars == <<connected, half, batch, wantsIme>>
sentVars == <<sent, late>>
allVars == <<routerVars, imVars, linkVars, sentVars>>

Ime == INSTANCE ImeBridge

Init ==
  /\ InitRouter /\ Ime!InitIme
  /\ connected = TRUE /\ half = "events" /\ batch = <<>> /\ wantsIme = {}
  /\ sent = {} /\ late = {}
  /\ \E b \in Budgets : calls = b.calls /\ asks = b.asks /\ focusChanges = b.focus
                       /\ reports = b.reports

\* BridgeNotification::FcitxEvent
FcitxEvents ==
  [kind : {"focus"}, ic : Paths, on : BOOLEAN] \cup [kind : {"rect"}, ic : Paths, rect : Rects]
    \cup [kind : {"destroyed"}, ic : Paths]

\* What an event leaves of the contexts that want the input method.
Wants(w, e) ==
  CASE e.kind = "focus" /\ e.on -> w \cup {e.ic}
    [] e.kind = "rect" -> w
    [] OTHER -> w \ {e.ic}

\* The carets among the notices behind the first k.
CaretsAfter(k, ns) == {<<ns[i].ic, ns[i].rect>> : i \in {j \in k + 1 .. Len(ns) : ns[j].kind = "rect"}}

\* try_recv finds the channel empty, or closed: then the bridge is inert from
\* here on. Nothing is taken once it is.
Drained == notices' = <<>> /\ connected' = (connected /\ bridge # "down")

RouterSame == <<bridge, worker, table, held, registry, call, commands, relayed, calls, asks>>

\* take_fcitx_events: the rest of the channel is thrown away.
TakeEvents ==
  /\ half = "events"
  /\ batch' = IF connected THEN Selected(notices, FcitxEvents) ELSE <<>>
  /\ Drained
  /\ half' = "handling"
  /\ UNCHANGED <<RouterSame, imVars, wantsIme, sentVars>>

HandleEvent ==
  /\ half = "handling" /\ batch # <<>>
  /\ Ime!FcitxEvent(Head(batch))
  /\ wantsIme' = Wants(wantsIme, Head(batch))
  /\ batch' = Tail(batch)
  /\ UNCHANGED <<routerVars, connected, half, sentVars>>

EventsHandled ==
  /\ half = "handling" /\ batch = <<>>
  /\ Ime!PollTip
  /\ half' = "rest"
  /\ UNCHANGED <<routerVars, connected, batch, wantsIme, sentVars>>

\* take_non_fcitx_notifications: what is left goes to Emacs.
TakeRest ==
  /\ half = "rest"
  /\ Drained
  /\ half' = "events"
  /\ UNCHANGED <<RouterSame, imVars, batch, wantsIme, sentVars>>

Tick == TakeEvents \/ HandleEvent \/ EventsHandled \/ TakeRest

\* SendPreedit, CommitString
ToContext(k, p) == [kind |-> k.kind, ic |-> p, text |-> k]

\* The host's text goes to the context that owns the bridge, if one does, and
\* to the focused client of text-input.
Text(k) ==
  /\ Ime!HostText
  /\ IF connected /\ ime.owner.kind = "dbus"
       THEN Command(ToContext(k, ime.owner.ic))
       ELSE UNCHANGED routerVars

\* Emacs's requests about rules
Ask(k) == connected /\ Command(k) /\ UNCHANGED imVars

Requests ==
  {[kind |-> "add", rule |-> r] : r \in Rules} \cup
  {[kind |-> "remove", id |-> r.id] : r \in Rules} \cup {[kind |-> "list"]}

Alive == bridge # "aborted"

\* The events in the channel stay there.
Switch ==
  /\ \E t \in Surfaces \cup {None} : Ime!SwitchWorkspace(t)
  /\ sent' = {}
  /\ late' = CaretsAfter(0, notices)
  /\ UNCHANGED routerVars

MainThread ==
  /\ half = "events"
  /\ \/ Switch
     \/ Ime!Main /\ UNCHANGED <<routerVars, sentVars>>
     \/ \E k \in Texts : Text(k) /\ UNCHANGED sentVars
     \/ \E k \in Requests : Ask(k) /\ UNCHANGED sentVars
  /\ UNCHANGED linkVars

\* What the router's threads leave of the rest.
Noted ==
  /\ sent' = sent \cup CaretsAfter(Len(notices), notices')
  /\ UNCHANGED <<imVars, linkVars, late>>

Threads == Router /\ Noted

\* The time to settle runs out, in the middle of a tick, too.
Time == Ime!SettleElapses /\ UNCHANGED <<routerVars, linkVars, sentVars>>

Next == Alive /\ (MainThread \/ Tick \/ Time \/ Threads)

Spec == Init /\ [][Next]_allVars

\* The event loop ticks, redraws and reads the host's events; the two threads
\* run; the bus answers, by its timeout at the latest.
ByMain(A) == Alive /\ half = "events" /\ A /\ UNCHANGED <<routerVars, linkVars, sentVars>>
ByThread(A) == A /\ Noted
FairSpec ==
  /\ Spec
  /\ WF_allVars(Alive /\ Tick)
  /\ SF_allVars(ByMain(Ime!Sync)) /\ SF_allVars(ByMain(Ime!HostEvent))
  /\ WF_allVars(ByThread(StartServer)) /\ WF_allVars(ByThread(Work))
  /\ \A c \in Clients : WF_allVars(ByThread(Filter(c)))

----------------------------------------------------------------------------
(* Properties *)

Commands == Requests \cup {ToContext(k, p) : k \in Texts, p \in Paths}

\* What else the router tells: answers to Emacs's requests.
Answers ==
  [kind : {"added", "removed"}, id : {r.id : r \in AllRules}]
    \cup [kind : {"list"}, rules : Seq(AllRules)]

TypeOK ==
  /\ TypeOKRouter /\ Ime!TypeOKIme
  /\ commands \in Seq(Commands)
  /\ notices \in Seq(FcitxEvents \cup Answers)
  /\ batch \in Seq(FcitxEvents)
  /\ connected \in BOOLEAN
  /\ half \in {"events", "handling", "rest"}
  /\ wantsIme \subseteq Paths

\* A caret the bridge takes for real is the owner's: one that its text input
\* reported since the last switch of workspaces, or that came for its path, then
\* or before and still in the channel. Never is it the caret of the client that
\* had the seat's text input before, nor one cached for a workspace that was left.
\* (Contexts are told apart by their path, which those of two applications share.)
CursorFromOwner ==
  ime.real => <<Ime!Key(ime.owner), ime.cursor.rect>> \in reported \cup sent \cup late

OwnerHasKeyboard == Ime!OwnerHasKeyboard
HostAreaKnown == Ime!HostAreaKnown

\* A context owns the bridge only while the last the compositor heard of it is
\* that it has the focus.
DbusOwnerWantsIme == ime.owner.kind = "dbus" => ime.owner.ic \in wantsIme

\* A client that has the keyboard and has bound text-input, before or after it
\* got the keyboard, gets the host's input method, unless a context of D-Bus
\* has it, or a switch has made the bridge forget who has the keyboard.
FocusedClientGetsIme ==
  \A s \in Surfaces :
    (kbFocus = s /\ s \in bound) ~>
      (host.allowed \/ kbFocus # s \/ ime.owner.kind = "dbus" \/ forgotten)
=============================================================================
