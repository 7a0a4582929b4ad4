----------------------------- MODULE ImeBridge -----------------------------
(* The compositor's input method bridge. One owner at a time may ask the     *)
(* host for its input method: the focused surface, through text-input-v3, or *)
(* an input context of fcitx, through D-Bus. The bridge follows the keyboard *)
(* focus, the caret each owner reports and the host's own answers.           *)
EXTENDS Naturals, SequencesExt

CONSTANTS
  Surfaces, Paths,         \* what may own the bridge
  Rects,                   \* carets, in the coordinates of their surface
  None,
  MaxHost                  \* bound: events of the host on their way

Corner == "corner"         \* one pixel at the surface's origin

VARIABLES
  ime,                     \* struct ImeBridge
  applied,                 \* what the bridge last told the host
  ti,                      \* the seat's text-input handle: focus and caret
  bound,                   \* surfaces whose client has bound text-input-v3
  entered,                 \* surfaces whose text input is between enter and leave
  kbFocus,                 \* the seat's keyboard focus
  host,                    \* the host's side: input method allowed, and where
  hostEvents,              \* its events on their way
  reported,                \* history: carets of text inputs since the last workspace switch
  forgotten,               \* history: that switch left the keyboard where it was
  focusChanges, reports    \* bounds: focus changes and requests of text-input to come

imeVars == <<ime, applied, ti, bound, entered, kbFocus, host, hostEvents, reported,
             forgotten, focusChanges, reports>>

Nobody == [kind |-> "none"]
Tip(s) == [kind |-> "tip", surface |-> s]
Dbus(p, o) == [kind |-> "dbus", ic |-> p, origin |-> o]

\* The key of an owner in the cache; owners with one key are the same.
Key(o) == CASE o.kind = "none" -> None [] o.kind = "tip" -> o.surface [] o.kind = "dbus" -> o.ic

Keys == Surfaces \cup Paths

Owners ==
  {Nobody} \cup {Tip(s) : s \in Surfaces} \cup {Dbus(p, o) : p \in Paths, o \in Surfaces \cup {None}}

\* A caret in the window: the origin it was translated by, and the rectangle.
At(origin, r) == [origin |-> origin, rect |-> r]
Carets == [origin : Surfaces \cup {None}, rect : Rects \cup {Corner}]

BridgeState ==
  [owner : Owners, cursor : Carets \cup {None}, real : BOOLEAN, snapshot : Rects \cup {None},
   settling : BOOLEAN, received : BOOLEAN, focused : Surfaces \cup {None},
   cache : [Keys -> Rects \cup {None}]]

\* A change of owner resets all but the focus and the cache.
Owned(i, o) ==
  [i EXCEPT !.owner = o, !.cursor = None, !.real = FALSE, !.snapshot = None,
            !.settling = FALSE, !.received = FALSE]

\* A mutant of TipOwned: the handle's caret is not remembered.
TipOwnedFresh(i, s, rect) ==
  LET cached == i.cache[s] IN
  [Owned(i, Tip(s)) EXCEPT
     !.cursor = At(s, IF cached = None THEN Corner ELSE cached),
     !.real = cached # None]

\* The caret of the handle is the seat's, not the surface's: it may be another
\* client's, so that only a change from it counts.
TipOwned(i, s, rect) ==
  LET cached == i.cache[s] IN
  [Owned(i, Tip(s)) EXCEPT
     !.snapshot = rect,
     !.cursor = At(s, IF cached = None THEN Corner ELSE cached),
     !.real = cached # None]

DbusOwned(i, o) ==
  LET cached == i.cache[o.ic]
      j == [Owned(i, o) EXCEPT !.settling = TRUE]
  IN IF cached = None THEN j ELSE [j EXCEPT !.cursor = At(o.origin, cached), !.real = TRUE]

\* set_owner: the same identity changes nothing, its origin included.
SetOwner(i, o, rect) ==
  IF Key(o) = Key(i.owner) THEN i
  ELSE CASE o.kind = "none" -> Owned(i, Nobody)
         [] o.kind = "tip" -> TipOwned(i, o.surface, rect)
         [] o.kind = "dbus" -> DbusOwned(i, o)

Owns(i, p) == i.owner.kind = "dbus" /\ i.owner.ic = p

\* report_dbus_cursor: within the settle window only the first report counts.
ReportDbus(i, p, r) ==
  IF ~Owns(i, p) \/ (i.received /\ i.settling) THEN i
  ELSE [i EXCEPT !.cursor = At(i.owner.origin, r), !.real = TRUE, !.received = TRUE,
                 !.cache[p] = r]

ReportTip(i, rect) ==
  IF i.owner.kind # "tip" \/ rect \in {None, i.snapshot} THEN i
  ELSE [i EXCEPT !.snapshot = rect, !.cursor = At(i.owner.surface, rect), !.real = TRUE,
                 !.cache[i.owner.surface] = rect]

\* A mutant of OnFcitxEvent: a context that loses the focus keeps the bridge.
OnFcitxEventKeeping(i, e, origin, rect) ==
  CASE e.kind = "focus" -> IF e.on THEN SetOwner(i, Dbus(e.ic, origin), rect) ELSE i
    [] e.kind = "rect" -> ReportDbus(i, e.ic, e.rect)
    [] e.kind = "destroyed" -> [i EXCEPT !.cache[e.ic] = None]

OnFcitxEvent(i, e, origin, rect) ==
  LET freed == IF Owns(i, e.ic) THEN Owned(i, Nobody) ELSE i IN
  CASE e.kind = "focus" -> IF e.on THEN SetOwner(i, Dbus(e.ic, origin), rect) ELSE freed
    [] e.kind = "rect" -> ReportDbus(i, e.ic, e.rect)
    [] e.kind = "destroyed" -> [freed EXCEPT !.cache[e.ic] = None]

----------------------------------------------------------------------------
(* Focus *)

InitIme ==
  /\ ime = [owner |-> Nobody, cursor |-> None, real |-> FALSE, snapshot |-> None,
            settling |-> FALSE, received |-> FALSE, focused |-> None,
            cache |-> [k \in Keys |-> None]]
  /\ applied = [allowed |-> FALSE, area |-> None]
  /\ ti = [focus |-> None, rect |-> None]
  /\ bound = {}
  /\ entered = {}
  /\ kbFocus = None
  /\ host = [allowed |-> FALSE, area |-> None]
  /\ hostEvents = <<>>
  /\ reported = {}
  /\ forgotten = FALSE

\* transition_focus: leave while the handle still points at the old surface.
\* Only clients with a text input get the events.
Transition(old, new) ==
  IF old = new THEN UNCHANGED <<ti, entered>>
  ELSE /\ ti' = [ti EXCEPT !.focus = new]
       /\ entered' = (entered \ {old}) \cup ({new} \cap bound)

\* A mutant of FocusOn: a surface without text input leaves the owner alone.
FocusOnTipOnly(i, new) ==
  /\ Transition(i.focused, new)
  /\ LET j == [i EXCEPT !.focused = new]
     IN ime' = IF new \in bound THEN SetOwner(j, Tip(new), ti.rect) ELSE j
  /\ kbFocus' = new
  /\ forgotten' = FALSE

\* on_focus_changed, given the bridge as the caller leaves it: an owner by
\* D-Bus loses the bridge, whoever gets the focus.
FocusOn(i, new) ==
  /\ Transition(i.focused, new)
  /\ LET j == [i EXCEPT !.focused = new]
     IN ime' = SetOwner(j, IF new \in bound THEN Tip(new) ELSE Nobody, ti.rect)
  /\ kbFocus' = new
  /\ forgotten' = FALSE

\* The seat's focus moves: a click, Emacs's request, a window's end.
FocusChanged(new) ==
  /\ focusChanges > 0
  /\ new # kbFocus
  /\ focusChanges' = focusChanges - 1
  /\ FocusOn(ime, new)
  /\ UNCHANGED <<applied, bound, host, hostEvents, reported, reports>>

\* reset_on_workspace_switch
Reset(i) ==
  [Owned(i, Nobody) EXCEPT !.focused = None, !.cache = [k \in Keys |-> None]]

\* switch_workspace: the reset comes first, so that the surface that had the
\* focus is not told to leave. If it is the target that has it already, no
\* change is reported and the bridge is not told of it again.
SwitchWorkspace(new) ==
  /\ focusChanges > 0
  /\ focusChanges' = focusChanges - 1
  /\ reported' = {}
  /\ IF new = kbFocus
       THEN /\ ime' = Reset(ime)
            /\ forgotten' = (new # None)
            /\ UNCHANGED <<ti, entered, kbFocus>>
       ELSE FocusOn(Reset(ime), new)
  /\ UNCHANGED <<applied, bound, host, hostEvents, reports>>

----------------------------------------------------------------------------
(* Clients of text-input-v3 *)

Bind(s) ==
  /\ reports > 0
  /\ s \notin bound
  /\ bound' = bound \cup {s}
  /\ reports' = reports - 1
  /\ UNCHANGED <<ime, applied, ti, entered, kbFocus, host, hostEvents, reported, forgotten,
                 focusChanges>>

\* Requests of a client that is not focused are discarded by the handle.
SetCaret(s, r) ==
  /\ reports > 0
  /\ s \in entered /\ ti.focus = s
  /\ ti' = [ti EXCEPT !.rect = r]
  /\ reported' = reported \cup {<<s, r>>}
  /\ reports' = reports - 1
  /\ UNCHANGED <<ime, applied, bound, entered, kbFocus, host, hostEvents, forgotten, focusChanges>>

----------------------------------------------------------------------------
(* The tick and the redraw *)

\* A mutant of LateBind: only a change of focus makes an owner.
NoLateBind(i) == i

\* poll_tip_freshness, its first half: the focused client may have bound
\* text-input-v3 after it got the focus.
LateBind(i) ==
  IF i.owner.kind = "none" /\ i.focused # None /\ ti.focus \in bound
    THEN SetOwner(i, Tip(i.focused), ti.rect) ELSE i

Origin == kbFocus

\* drain_fcitx_events, for one event of those it has taken
FcitxEvent(e) ==
  /\ ime' = OnFcitxEvent(ime, e, Origin, ti.rect)
  /\ UNCHANGED <<applied, ti, bound, entered, kbFocus, host, hostEvents, reported, forgotten,
                 focusChanges, reports>>

\* poll_tip_freshness
PollTip ==
  /\ ime' = ReportTip(LateBind(ime), ti.rect)
  /\ UNCHANGED <<applied, ti, bound, entered, kbFocus, host, hostEvents, reported, forgotten,
                 focusChanges, reports>>

SettleElapses ==
  /\ ime.settling
  /\ ime' = [ime EXCEPT !.settling = FALSE]
  /\ UNCHANGED <<applied, ti, bound, entered, kbFocus, host, hostEvents, reported, forgotten,
                 focusChanges, reports>>

Wanted ==
  CASE ime.owner.kind = "none" -> FALSE
    [] ime.owner.kind = "tip" -> TRUE
    [] ime.owner.kind = "dbus" -> ime.real

Toggled == Wanted # applied.allowed

\* A mutant of Resent: the area is sent only when it changed.
NeverResent == FALSE

\* Enabling resets the host's area, so that it is sent again after it.
Resent == Toggled /\ Wanted

\* sync_to_winit
Sync ==
  LET pushed == ime.cursor # None /\ (ime.cursor # applied.area \/ Resent)
      area == IF Toggled /\ Wanted THEN None ELSE host.area
  IN
  /\ Len(hostEvents) < MaxHost
  /\ applied' = [allowed |-> Wanted, area |-> IF pushed THEN ime.cursor ELSE applied.area]
  /\ host' = [allowed |-> Wanted, area |-> IF pushed THEN ime.cursor ELSE area]
  /\ hostEvents' = IF Toggled THEN Append(hostEvents, IF Wanted THEN "enabled" ELSE "disabled")
                   ELSE hostEvents
  /\ UNCHANGED <<ime, ti, bound, entered, kbFocus, reported, forgotten, focusChanges, reports>>

----------------------------------------------------------------------------
(* Events of the host's input method *)

\* on_host_ime_event: first the caret, then enter or leave for the handle's focus.
HostEvent ==
  /\ hostEvents # <<>>
  /\ hostEvents' = Tail(hostEvents)
  /\ ime' = ReportTip(ime, ti.rect)
  /\ entered' = IF Head(hostEvents) = "enabled" THEN entered \cup ({ti.focus} \cap bound)
                ELSE entered \ {ti.focus}
  /\ UNCHANGED <<applied, ti, bound, kbFocus, host, reported, forgotten, focusChanges, reports>>

\* The host's window loses its focus and gets it back.
HostBlinks ==
  /\ host.allowed /\ hostEvents = <<>> /\ MaxHost > 1
  /\ hostEvents' = <<"disabled", "enabled">>
  /\ UNCHANGED <<ime, applied, ti, bound, entered, kbFocus, host, reported, forgotten,
                 focusChanges, reports>>

\* Text of the host's input method: the caret is looked at as for any event;
\* who gets it is decided by the composition.
HostText ==
  /\ host.allowed
  /\ ime' = ReportTip(ime, ti.rect)
  /\ UNCHANGED <<applied, ti, bound, entered, kbFocus, host, hostEvents, reported, forgotten,
                 focusChanges, reports>>

\* A switch concerns the composition, too.
Main ==
  \/ \E s \in Surfaces \cup {None} : FocusChanged(s)
  \/ \E s \in Surfaces : Bind(s) \/ \E r \in Rects : SetCaret(s, r)
  \/ Sync \/ HostEvent \/ HostBlinks

----------------------------------------------------------------------------
(* Properties *)

TypeOKIme ==
  /\ ime \in BridgeState
  /\ ti \in [focus : Surfaces \cup {None}, rect : Rects \cup {None}]
  /\ bound \subseteq Surfaces
  /\ kbFocus \in Surfaces \cup {None}
  /\ applied \in [allowed : BOOLEAN, area : Carets \cup {None}]
  /\ host \in [allowed : BOOLEAN, area : Carets \cup {None}]
  /\ forgotten \in BOOLEAN

\* Whatever order focus, switch and late binding come in, the text-input handle
\* and the bridge point at the surface that has the keyboard, and only that
\* surface owns the bridge through text-input; unless the last switch left the
\* keyboard where it was: then the bridge knows of no focus, and gives itself to
\* no text input. (A switch to a workspace whose frame is gone leaves the
\* keyboard to nobody and the handle where it was.)
OwnerHasKeyboard ==
  /\ ime.focused = (IF forgotten THEN None ELSE kbFocus)
  /\ kbFocus # None => ti.focus = kbFocus
  /\ ime.owner.kind = "tip" => ime.owner.surface = kbFocus /\ ~forgotten

\* While the host's input method is on it knows where the caret is, and the
\* bridge's record of what it sent is what the host has.
HostAreaKnown == host.allowed => host.area # None /\ host.area = applied.area
=============================================================================
