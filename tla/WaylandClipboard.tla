-------------------------- MODULE WaylandClipboard --------------------------
(* The two Wayland backends: data-control, on a connection of its own, and   *)
(* wl_data_device, on the connection of the host window, which only hears    *)
(* of selections while that window has the host's keyboard focus and needs   *)
(* the serial of an input event to set one.                                 *)
EXTENDS ClipboardHost

VARIABLES
  source,                  \* clipboard_source: the copy we last offered the host
  offer,                   \* clipboard_offer: the copy the current offer is for
  device,                  \* the data device exists
  focus,                   \* the host window has the host's keyboard focus
  serial,                  \* latest_serial is known
  unechoed                 \* data-control: a request changed nothing, and has no echo (history)

wlVars == <<source, offer, device, focus, serial, unechoed>>

Focused == backend = "data_control" \/ focus

-----------------------------------------------------------------------------
(* The host compositor.                                                      *)

\* The owner that loses the selection is told, then every device in focus.
Announced(new, ours) ==
  /\ hostOwner' = new
  /\ toEmthin' = toEmthin
       \o (IF hostOwner \in ClientCopies /\ hostOwner # new THEN <<Cancelled(hostOwner)>> ELSE <<>>)
       \o (IF Focused THEN <<Selection(new, ours)>> ELSE <<>>)

\* A request to set the selection from a window without focus may be ignored; one
\* to clear it when there is none may be answered by nothing (wlroots compares the
\* two and returns), or announced as any other.
HostSets ==
  /\ toHost # <<>> /\ Head(toHost).type = "set"
  /\ toHost' = Tail(toHost)
  /\ \/ Announced(Head(toHost).sel, TRUE) /\ UNCHANGED unechoed
     \/ ~Focused /\ UNCHANGED <<hostOwner, toEmthin, unechoed>>
     \/ /\ Head(toHost).sel = None /\ hostOwner = None
        /\ unechoed' = (backend = "data_control")
        /\ UNCHANGED <<hostOwner, toEmthin>>
  /\ UNCHANGED <<backend, made, suppress, events, got, refused, source, offer, device, focus,
                 serial>>

HostReceives ==
  /\ toHost # <<>> /\ Head(toHost).type = "receive"
  /\ toHost' = Tail(toHost)
  /\ LET r == Head(toHost)
         dead == r.sel # hostOwner
     IN IF r.sel \in ClientCopies /\ ~dead
        THEN toEmthin' = Append(toEmthin, Send(r.sel, r.paste)) /\ UNCHANGED got
        ELSE /\ got' = [got EXCEPT ![r.paste] = IF dead THEN "eof" ELSE r.sel]
             /\ UNCHANGED toEmthin
  /\ UNCHANGED <<backend, hostOwner, made, suppress, events, refused, wlVars>>

HostAppCopies(h) ==
  /\ Announced(h, FALSE)
  /\ UNCHANGED <<backend, toHost, suppress, events, got, refused, wlVars>>

\* The application that owns the selection quits.
HostOwnerQuits ==
  /\ hostOwner \in HostCopies
  /\ Announced(None, FALSE)
  /\ UNCHANGED <<backend, made, toHost, suppress, events, got, refused, wlVars>>

HostAppPastes(f) ==
  /\ toEmthin' = Append(toEmthin, Send(hostOwner, f))
  /\ UNCHANGED <<backend, hostOwner, made, toHost, suppress, events, refused, wlVars>>

\* Focus comes with an input serial and the selection of the moment.
HostFocusIn ==
  /\ backend = "wl_data_device" /\ ~focus
  /\ focus' = TRUE
  /\ toEmthin' = toEmthin \o <<Selection(hostOwner, FALSE), [type |-> "enter"]>>
  /\ UNCHANGED <<backend, hostOwner, made, toHost, suppress, events, got, refused,
                 source, offer, device, serial, unechoed>>

HostFocusOut ==
  /\ backend = "wl_data_device" /\ focus
  /\ focus' = FALSE
  /\ toEmthin' = Append(toEmthin, [type |-> "leave"])
  /\ UNCHANGED <<backend, hostOwner, made, toHost, suppress, events, got, refused,
                 source, offer, device, serial, unechoed>>

HostFinishes ==
  /\ backend = "data_control" /\ device
  /\ \A i \in DOMAIN toEmthin : toEmthin[i].type # "finished"
  /\ toEmthin' = Append(toEmthin, [type |-> "finished"])
  /\ UNCHANGED <<backend, hostOwner, made, toHost, suppress, events, got, refused, wlVars>>

-----------------------------------------------------------------------------
(* The backend.                                                              *)

\* Mutants of Swallows: every change counts as an echo, or none does.
SwallowsAll(e) == e.type = "selection"
SwallowsNone(e) == FALSE

\* on_selection: the next change after a request of ours counts as its echo.
Swallows(e) == e.type = "selection" /\ suppress > 0

\* Events for a source that was destroyed never reach the handlers.
Alive(e) == source = e.sel

\* What the handler of e pushes onto the queue of events.
WlEmits(e) ==
  CASE e.type = "selection" /\ ~Swallows(e) -> <<HostSelectionChanged(e.sel)>>
    [] e.type = "cancelled" /\ Alive(e) -> <<SourceCancelled>>
    [] e.type = "send" /\ Alive(e) -> <<HostSendRequest(e.paste)>>
    [] OTHER -> <<>>

\* The handler of e, but for what it emits.
WlHandles(e) ==
  /\ offer' = IF e.type = "selection" THEN e.sel ELSE offer
  /\ suppress' = IF Swallows(e) THEN suppress - 1 ELSE suppress
  /\ source' = IF e.type = "cancelled" /\ Alive(e) THEN None ELSE source
  /\ device' = (device /\ e.type # "finished")
  /\ serial' = (serial \/ e.type \in {"enter", "leave"})
  /\ UNCHANGED <<focus, unechoed>>

\* The descriptor sent to a destroyed source is closed.
Closes(e) == e.type = "send" /\ ~Alive(e)

\* set_host_selection and clear_host_selection: c is None for the latter.
CanSet == device /\ (backend = "wl_data_device" => serial)
WlSet(c) ==
  IF CanSet
  THEN /\ toHost' = Append(toHost, [type |-> "set", sel |-> c])
       /\ source' = c
       /\ suppress' = suppress + 1
       /\ UNCHANGED <<offer, device, focus, serial, unechoed>>
  ELSE UNCHANGED <<toHost, suppress, wlVars>>

\* receive_from_host
WlReceive(p) ==
  IF offer = None
  THEN got' = [got EXCEPT ![p] = "eof"] /\ UNCHANGED toHost
  ELSE /\ got' = [got EXCEPT ![p] = "waiting"]
       /\ toHost' = Append(toHost, [type |-> "receive", sel |-> offer, paste |-> p])
=============================================================================
