--------------------------- MODULE HostClipboard ---------------------------
(* The clipboard as a whole: the clients' selection, kept by the seat, the   *)
(* origin by which the compositor routes pastes, and the backend that ties   *)
(* both to the host's selection.                                            *)
EXTENDS WaylandClipboard, X11Clipboard

CONSTANTS
  Supported,               \* what the host may support: sets of backends
  MaxEchoes                \* bound: echoes counted when a client clears its selection
ASSUME SupportedAssumption == Supported \subseteq SUBSET {"data_control", "wl_data_device", "x11"}

VARIABLES
  connected,               \* Emacs is connected
  origin,                  \* clipboard_origin
  seat,                    \* the seat's selection: whose it is, and which copy
  serving,                 \* paste -> the copy whose client is to write to its descriptor
  apart,                   \* the host was not told what became of the clients' selection (history)
  crossed                  \* changes of both sides have crossed on their way (history)

bridgeVars == <<connected, origin, seat, serving, apart, crossed>>
vars == <<hostVars, wlVars, xVars, bridgeVars>>

Wayland == backend \in {"data_control", "wl_data_device"}
OnClients(c) == [by |-> "client", sel |-> c]
OnHost(c) == [by |-> "host", sel |-> c]
NoSelection == [by |-> "none", sel |-> None]

TypeOK ==
  /\ backend \in {"data_control", "wl_data_device", "x11", "none"}
  /\ hostOwner \in Copies \cup {None}
  /\ suppress \in Nat
  /\ got \in [Pastes -> Copies \cup {"idle", "waiting", "eof", "part"}]
  /\ {source, ours} \subseteq ClientCopies \cup {None}
  /\ offer \in Copies \cup {None}
  /\ outgoing \in [Pastes -> Copies \cup {"none", "asked", "open", "eof"}]
  /\ origin \in {"Wayland", "Host"}
  /\ seat \in {NoSelection} \cup [by : {"client"}, sel : ClientCopies] \cup [by : {"host"}, sel : Copies]
  /\ serving \in [Pastes -> ClientCopies \cup {None}]

\* new() reads the selection the host has at the start: the Wayland backends
\* hear of it in their second roundtrip (wl_data_device if it has the focus),
\* the X11 backend asks its owner for the targets.
Init ==
  /\ \E s \in Supported : backend = InitBackend(s)
  /\ hostOwner \in HostCopies \cup {None}
  /\ made = {hostOwner}
  /\ device = (backend \in {"data_control", "wl_data_device"})
  /\ focus \in {FALSE, backend = "wl_data_device"}
  /\ serial = focus
  /\ LET told == backend = "data_control" \/ focus
         asks == backend = "x11" /\ hostOwner # None
     IN /\ offer = IF told THEN hostOwner ELSE None
        /\ events = IF told THEN <<HostSelectionChanged(hostOwner)>> ELSE <<>>
        /\ toHost = IF asks THEN <<Convert("targets", "INIT", None)>> ELSE <<>>
        /\ pending = [k \in Props |-> IF asks /\ k = "INIT" THEN [what |-> "targets"] ELSE None]
  /\ toEmthin = <<>>
  /\ suppress = 0
  /\ got = [f \in Pastes |-> "idle"]
  /\ refused = FALSE
  /\ source = None /\ ours = None /\ unechoed = FALSE
  /\ prop = [k \in Props |-> None]
  /\ incr = None
  /\ outgoing = [f \in Pastes |-> "none"]
  /\ notified = [f \in HostPastes |-> 0]
  /\ connected \in BOOLEAN
  /\ origin = "Wayland"
  /\ seat = NoSelection
  /\ serving = [f \in Pastes |-> None]
  /\ apart = FALSE
  /\ crossed = FALSE

-----------------------------------------------------------------------------
(* The clients of the compositor.                                            *)

\* A change made by the host itself is on its way to the seat.
NewsFromHost ==
  \/ \E i \in DOMAIN toEmthin : toEmthin[i].type = "selection" /\ ~toEmthin[i].ours
  \/ \E i \in DOMAIN events : events[i].type = "changed"

\* A change made here is on its way to the host.
NewsToHost == \E i \in DOMAIN toHost : toHost[i].type = "set"

\* The backend's set_host_selection, or clear_host_selection if c is None.
SetHost(c) ==
  IF backend = "x11" THEN XSet(c) /\ UNCHANGED wlVars
  ELSE IF Wayland THEN WlSet(c) /\ UNCHANGED xVars
  ELSE UNCHANGED <<toHost, suppress, wlVars, xVars>>

\* A mutant of Originates: the origin stays with the host.
OriginatesNot == UNCHANGED origin
Originates == origin' = "Wayland"

\* new_selection with a source: a client copies. The host is told if Emacs is
\* connected.
ClientCopy(c) ==
  /\ c \notin made /\ Room
  /\ made' = made \cup {c}
  /\ seat' = OnClients(c)
  /\ Originates
  /\ IF connected THEN SetHost(c) ELSE UNCHANGED <<toHost, suppress, wlVars, xVars>>
  /\ apart' = (toHost' = toHost)
  /\ crossed' = (crossed \/ (toHost' # toHost /\ NewsFromHost))
  /\ UNCHANGED <<backend, hostOwner, toEmthin, events, got, refused, connected, serving>>

\* new_selection without one: a client clears the selection, which may be none.
\* The host's goes whatever the origin, which stays.
ClientClear ==
  /\ Room /\ suppress < MaxEchoes
  /\ seat' = NoSelection
  /\ SetHost(None)
  /\ apart' = FALSE
  /\ crossed' = (crossed \/ (toHost' # toHost /\ NewsFromHost))
  /\ UNCHANGED <<backend, hostOwner, made, toEmthin, events, got, refused, connected, origin, serving>>

\* The client that owns the seat's selection quits, or destroys its source: the
\* seat has none from here on, and smithay does not call new_selection for it.
ClientSourceGone ==
  /\ seat.by = "client"
  /\ seat' = NoSelection
  /\ apart' = TRUE
  /\ UNCHANGED <<hostVars, wlVars, xVars, connected, origin, serving, crossed>>

\* send_selection: a client pastes what the seat holds for the host.
ClientPaste(p) ==
  /\ got[p] = "idle" /\ seat.by = "host" /\ Room
  /\ IF origin = "Host"
     THEN IF backend = "x11" THEN XReceive(p) ELSE WlReceive(p) /\ UNCHANGED pending
     ELSE got' = [got EXCEPT ![p] = "eof"] /\ UNCHANGED <<toHost, pending>>
  /\ UNCHANGED <<backend, hostOwner, made, toEmthin, suppress, events, refused, wlVars,
                 ours, prop, incr, outgoing, notified, bridgeVars>>

\* The client asked for its selection writes it, or dies, and closes.
ClientWrites(f) ==
  /\ serving[f] # None
  /\ serving' = [serving EXCEPT ![f] = None]
  /\ \E data \in {serving[f], "eof"} :
       IF backend = "x11"
       THEN /\ outgoing' = [outgoing EXCEPT ![f] = IF @ = "open" THEN data ELSE @]
            /\ UNCHANGED got
       ELSE got' = [got EXCEPT ![f] = data] /\ UNCHANGED outgoing
  /\ UNCHANGED <<backend, hostOwner, made, toHost, toEmthin, suppress, events, refused, wlVars,
                 ours, pending, prop, incr, notified, connected, origin, seat, apart, crossed>>

EmacsConnection ==
  /\ connected' = ~connected
  /\ UNCHANGED <<hostVars, wlVars, xVars, origin, seat, serving, apart, crossed>>

-----------------------------------------------------------------------------
(* handle_clipboard_event, for the event x.                                  *)

\* inject_host_selection
Inject(s) ==
  /\ seat' = IF s = None THEN NoSelection ELSE OnHost(s)
  /\ origin' = IF s = None THEN "Wayland" ELSE "Host"
  /\ apart' = FALSE

\* forward_client_selection: the client that owns the seat's selection, or
\* nobody, is to write to the descriptor.
Forwards(f) == origin = "Wayland" /\ seat.by = "client"

\* A mutant of Dropped: what is not forwarded stays open.
DroppedNever(f) == UNCHANGED got
Dropped(f) == got' = [got EXCEPT ![f] = "eof"]

HandleChanged(x) ==
  /\ x.type = "changed"
  /\ Inject(x.sel)
  /\ UNCHANGED <<serving, got>>

HandleCancelled(x) ==
  /\ x.type = "sourceCancelled"
  /\ origin' = "Wayland"
  /\ UNCHANGED <<seat, apart, serving, got>>

HandleRequest(x) ==
  /\ x.type = "request"
  /\ IF Forwards(x.paste)
     THEN serving' = [serving EXCEPT ![x.paste] = seat.sel] /\ UNCHANGED got
     ELSE Dropped(x.paste) /\ UNCHANGED serving
  /\ UNCHANGED <<origin, seat, apart>>

Handle(x) == HandleChanged(x) \/ HandleCancelled(x) \/ HandleRequest(x)

\* An X11 requestor waits for us to drain a pipe, whose other end is forwarded:
\* it is completed with nothing if the event loop does not take the pipe.
HandleXRequest(x) ==
  /\ x.type = "request"
  /\ serving' = IF Forwards(x.paste) THEN [serving EXCEPT ![x.paste] = seat.sel] ELSE serving
  /\ \/ /\ outgoing' = [outgoing EXCEPT ![x.paste] = IF Forwards(x.paste) THEN "open" ELSE "eof"]
        /\ UNCHANGED <<got, toEmthin, prop, notified>>
     \/ XComplete(x.paste, "eof")
  /\ UNCHANGED <<origin, seat, apart>>

\* The tick takes what was dispatched; one event at a time, since more may be
\* dispatched before the next tick anyway.
TickEvent ==
  /\ events # <<>>
  /\ events' = Tail(events)
  /\ LET x == Head(events) IN
     IF backend = "x11" /\ x.type = "request"
     THEN HandleXRequest(x)
     ELSE Handle(x) /\ UNCHANGED <<toEmthin, prop, outgoing, notified>>
  /\ UNCHANGED <<backend, hostOwner, made, toHost, suppress, refused, wlVars, ours, pending, incr,
                 connected, crossed>>

\* register_outgoing_pipe: the pipe is drained to its end, or fails half-way.
PipeEnds(f) ==
  /\ outgoing[f] \notin {"none", "asked"}
  /\ \/ outgoing[f] # "open" /\ XComplete(f, outgoing[f])
     \/ outgoing[f] = "open" /\ XComplete(f, "part")
  /\ UNCHANGED <<backend, hostOwner, made, toHost, suppress, events, refused, wlVars, ours, pending,
                 incr, bridgeVars>>

-----------------------------------------------------------------------------
(* The backends' connections.                                                *)

\* register_clipboard_source: the connection of data-control is readable.
DispatchDataControl ==
  /\ backend = "data_control" /\ toEmthin # <<>>
  /\ LET e == Head(toEmthin) IN
     /\ toEmthin' = Tail(toEmthin)
     /\ events' = events \o WlEmits(e)
     /\ got' = IF Closes(e) THEN [got EXCEPT ![e.paste] = "eof"] ELSE got
     /\ WlHandles(e)
  /\ UNCHANGED <<backend, hostOwner, made, toHost, refused, xVars, bridgeVars>>

\* The tick dispatches for wl_data_device, which shares a connection, and
\* handles at once what comes of it.
DispatchDataDevice ==
  /\ backend = "wl_data_device" /\ toEmthin # <<>> /\ events = <<>>
  /\ LET e == Head(toEmthin) IN
     /\ toEmthin' = Tail(toEmthin)
     /\ WlHandles(e)
     /\ IF WlEmits(e) # <<>>
        THEN Handle(Head(WlEmits(e)))
        ELSE /\ got' = IF Closes(e) THEN [got EXCEPT ![e.paste] = "eof"] ELSE got
             /\ UNCHANGED <<origin, seat, apart, serving>>
  /\ UNCHANGED <<backend, hostOwner, made, toHost, events, refused, xVars, connected, crossed>>

DispatchX11 == backend = "x11" /\ XDispatch /\ UNCHANGED <<wlVars, bridgeVars>>

-----------------------------------------------------------------------------
(* The host, of either kind.                                                 *)

HostAppCopy(h) ==
  /\ h \notin made /\ Room /\ backend # "none"
  /\ made' = made \cup {h}
  /\ \/ Wayland /\ HostAppCopies(h) /\ UNCHANGED xVars
     \/ backend = "x11" /\ XAppCopies(h) /\ UNCHANGED wlVars
  /\ crossed' = (crossed \/ NewsToHost)
  /\ UNCHANGED <<connected, origin, seat, serving, apart>>

HostOwnerGone ==
  /\ Room
  /\ \/ Wayland /\ HostOwnerQuits /\ UNCHANGED xVars
     \/ backend = "x11" /\ XOwnerQuits /\ UNCHANGED wlVars
  /\ crossed' = (crossed \/ NewsToHost)
  /\ UNCHANGED <<connected, origin, seat, serving, apart>>

\* An application of the host pastes what a client copied.
HostAppPaste(f) ==
  /\ hostOwner \in ClientCopies /\ got[f] = "idle" /\ Room
  /\ got' = [got EXCEPT ![f] = "waiting"]
  /\ \/ Wayland /\ HostAppPastes(f) /\ UNCHANGED xVars
     \/ /\ backend = "x11" /\ UNCHANGED wlVars
        /\ \E target \in {"targets", "data", "unknown"} : XAppPastes(f, target)
  /\ UNCHANGED bridgeVars

HostAnswers ==
  /\ \/ Wayland /\ (HostSets \/ HostReceives) /\ UNCHANGED xVars
     \/ backend = "x11" /\ (XSets \/ XConverts) /\ UNCHANGED wlVars
  /\ UNCHANGED bridgeVars

HostFeeds == backend = "x11" /\ XFeeds /\ UNCHANGED <<wlVars, bridgeVars>>

HostFocus == Room /\ (HostFocusIn \/ HostFocusOut) /\ UNCHANGED <<xVars, bridgeVars>>

DeviceFinished == Room /\ HostFinishes /\ UNCHANGED <<xVars, bridgeVars>>

-----------------------------------------------------------------------------
Progress ==
  \/ TickEvent \/ DispatchDataControl \/ DispatchDataDevice \/ DispatchX11
  \/ HostAnswers \/ HostFeeds
  \/ \E f \in Pastes : ClientWrites(f) \/ PipeEnds(f)

Next ==
  \/ Progress
  \/ EmacsConnection \/ ClientClear \/ ClientSourceGone
  \/ \E c \in ClientCopies : ClientCopy(c)
  \/ \E p \in ClientPastes : ClientPaste(p)
  \/ HostOwnerGone \/ HostFocus \/ DeviceFinished
  \/ \E h \in HostCopies : HostAppCopy(h)
  \/ \E f \in HostPastes : HostAppPaste(f)

Spec == Init /\ [][Next]_vars

\* Ticks and dispatches follow one another, the host answers, and a client asked
\* for its selection writes it or dies.
Fairness ==
  /\ WF_vars(TickEvent) /\ WF_vars(DispatchDataControl) /\ WF_vars(DispatchDataDevice)
  /\ WF_vars(DispatchX11) /\ WF_vars(HostAnswers) /\ WF_vars(HostFeeds)
  /\ \A f \in Pastes : WF_vars(ClientWrites(f)) /\ WF_vars(PipeEnds(f))

FairSpec == Spec /\ Fairness

-----------------------------------------------------------------------------
(* Properties.                                                               *)

Quiet == toHost = <<>> /\ toEmthin = <<>> /\ events = <<>>

\* The origin names who really holds the seat's selection, so that a paste is
\* routed to somebody who has the data: as long as no change of the host has
\* crossed one of ours on the way, and not over wl_data_device (EchoStaysOut).
OriginNamesOwner ==
  ~crossed /\ backend # "wl_data_device" =>
              /\ seat.by = "host" => origin = "Host"
              /\ seat.by = "client" => origin = "Wayland"

SidesAgree ==
  seat = CASE hostOwner \in ClientCopies -> OnClients(hostOwner)
           [] hostOwner \in HostCopies -> OnHost(hostOwner)
           [] OTHER -> NoSelection

\* Over data-control, both sides have the same selection once nothing is on
\* its way: the counter has swallowed our echoes and nothing but them. Not so
\* when changes have crossed, when the host was not told what became of the
\* clients' selection (a copy while Emacs is away, the end of the client that
\* owns it), or once the host has left a clear of nothing without an echo.
AgreeOnceQuiet ==
  backend = "data_control" /\ device /\ Quiet /\ ~crossed /\ ~apart /\ ~unechoed => SidesAgree

\* A client that pastes is not left waiting on an open descriptor, unless an
\* X11 owner refuses a conversion.
PasteAnswered ==
  \A p \in ClientPastes : Waiting(p) ~> (~Waiting(p) \/ refused)

\* An application of the host that pastes what a client copied is answered,
\* whatever becomes of the copy, of its client and of the pipe.
HostPasteAnswered ==
  \A f \in HostPastes : Waiting(f) ~> ~Waiting(f)

\* A requestor is sent one SelectionNotify at most, even when the pipe of its
\* request fails, or is drained after the request was given up.
NotifiedOnce == \A f \in HostPastes : notified[f] <= 1

\* What a client copied does not come back to the clients as a selection of the
\* host: the counter keeps echoes out.
EchoStaysOut == ~crossed => ~(seat.by = "host" /\ seat.sel \in ClientCopies)
=============================================================================
