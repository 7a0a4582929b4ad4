---------------------------- MODULE X11Clipboard ----------------------------
(* The X11 backend: a hidden window that owns selections in the clients'     *)
(* name and converts those of other owners through a property of its own.    *)
(* Conversions are told apart by that property only: a second one on the     *)
(* same property takes the place of the first. Large data comes in by INCR,  *)
(* chunk by chunk.                                                          *)
EXTENDS ClipboardHost

VARIABLES
  ours,                    \* our_clipboard_mimes: the copy they are of
  pending,                 \* pending_converts, by property
  prop,                    \* what each property of our window holds
  incr,                    \* the INCR transfer an owner is feeding us
  outgoing,                \* outgoing_requests, and what is in the pipe of each
  notified                 \* host paste -> how many SelectionNotify it was sent

xVars == <<ours, pending, prop, incr, outgoing, notified>>

Props == {"SEL", "INIT"}

Holds(what, c) == [what |-> what, sel |-> c]
Xfixes(c) == [type |-> "xfixes", sel |-> c]
NewValue(k) == [type |-> "newValue", prop |-> k]
Notify(k, ok) == [type |-> "notify", prop |-> k, ok |-> ok]
Ask(f, target, k) == [type |-> "ask", paste |-> f, target |-> target, prop |-> k]
Convert(target, k, f) == [type |-> "convert", target |-> target, prop |-> k, paste |-> f]

-----------------------------------------------------------------------------
(* The X server and the applications of the host.                            *)

XSets ==
  /\ toHost # <<>> /\ Head(toHost).type = "set"
  /\ toHost' = Tail(toHost)
  /\ hostOwner' = Head(toHost).sel
  /\ toEmthin' = Append(toEmthin, Xfixes(Head(toHost).sel))
  /\ UNCHANGED <<backend, made, suppress, events, got, refused, xVars>>

XAppCopies(h) ==
  /\ hostOwner' = h
  /\ toEmthin' = Append(toEmthin, Xfixes(h))
  /\ UNCHANGED <<backend, toHost, suppress, events, got, refused, xVars>>

XOwnerQuits ==
  /\ hostOwner \in HostCopies
  /\ hostOwner' = None
  /\ toEmthin' = Append(toEmthin, Xfixes(None))
  /\ UNCHANGED <<backend, made, toHost, suppress, events, got, refused, xVars>>

XAppPastes(f, target) ==
  /\ toEmthin' = Append(toEmthin, Ask(f, target, "SEL"))
  /\ UNCHANGED <<backend, hostOwner, made, toHost, suppress, events, refused, xVars>>

\* A property of our window is written and the conversion answered.
Answered(k, content) ==
  /\ prop' = [prop EXCEPT ![k] = content]
  /\ toEmthin' = toEmthin \o <<NewValue(k), Notify(k, TRUE)>>

XConverts ==
  /\ toHost # <<>> /\ Head(toHost).type = "convert"
  /\ toHost' = Tail(toHost)
  /\ LET r == Head(toHost) IN
     \/ \* no owner, or one that does not know the target
        /\ hostOwner \notin ClientCopies
        /\ toEmthin' = Append(toEmthin, Notify(r.prop, FALSE))
        /\ refused' = TRUE
        /\ UNCHANGED <<prop, incr>>
     \/ \* we are the owner
        /\ hostOwner \in ClientCopies
        /\ toEmthin' = Append(toEmthin, Ask(r.paste, r.target, r.prop))
        /\ UNCHANGED <<refused, prop, incr>>
     \/ /\ hostOwner \in HostCopies
        /\ Answered(r.prop, Holds(r.target, hostOwner))
        /\ UNCHANGED <<refused, incr>>
     \/ /\ hostOwner \in HostCopies /\ r.target = "data"
        /\ Answered(r.prop, Holds("header", hostOwner))
        /\ incr' = Holds("chunk", hostOwner)
        /\ UNCHANGED refused
  /\ UNCHANGED <<backend, hostOwner, made, suppress, events, got, ours, pending,
                 outgoing, notified>>

\* The owner writes the next chunk once we have deleted the one before, and an
\* empty one at the end.
XFeeds ==
  /\ incr # None /\ prop["SEL"] = None
  /\ prop' = [prop EXCEPT !["SEL"] = incr]
  /\ incr' = IF incr.what = "chunk" THEN Holds("end", incr.sel) ELSE None
  /\ toEmthin' = Append(toEmthin, NewValue("SEL"))
  /\ UNCHANGED <<backend, hostOwner, made, toHost, suppress, events, got, refused,
                 ours, pending, outgoing, notified>>

-----------------------------------------------------------------------------
(* The backend's handlers; e is the event, taken off the queue by dispatch.  *)

IsData(k) == pending[k] # None /\ pending[k].what = "data"

\* A mutant of Displaced: the descriptor is kept.
DisplacedKept(k) == got

\* Taking the place of a pending conversion drops the descriptor it held.
Displaced(k) == IF IsData(k) THEN [got EXCEPT ![pending[k].paste] = "eof"] ELSE got

\* The notification is about a request of ours.
EchoOf(e) == e.sel \in ClientCopies

OnXfixes(e) ==
  /\ e.type = "xfixes"
  /\ toEmthin' = Tail(toEmthin)
  /\ IF EchoOf(e) \/ suppress > 0
     THEN /\ suppress' = IF EchoOf(e) THEN suppress ELSE suppress - 1
          /\ UNCHANGED <<events, toHost, pending, got>>
     ELSE /\ UNCHANGED suppress
          /\ IF e.sel = None
             THEN events' = Append(events, HostSelectionChanged(None)) /\ UNCHANGED <<toHost, pending, got>>
             ELSE /\ toHost' = Append(toHost, Convert("targets", "SEL", None))
                  /\ pending' = [pending EXCEPT !["SEL"] = [what |-> "targets"]]
                  /\ got' = Displaced("SEL")
                  /\ UNCHANGED events
  /\ UNCHANGED <<prop, ours, outgoing, notified>>

\* A refusal carries no property, so the conversion it answers is not found.
OnRefusal(e) ==
  /\ e.type = "notify" /\ ~e.ok
  /\ toEmthin' = Tail(toEmthin)
  /\ UNCHANGED <<suppress, events, toHost, pending, got, prop, ours, outgoing, notified>>

\* What a client is given when property k is read as data.
Bytes(k) ==
  CASE prop[k] = None -> "eof"
    [] prop[k] # None /\ prop[k].what = "data" -> prop[k].sel
    [] OTHER -> "part"

OnNotify(e) ==
  /\ e.type = "notify" /\ e.ok
  /\ toEmthin' = Tail(toEmthin)
  /\ LET k == e.prop
         c == pending[k]
         header == prop[k] # None /\ prop[k].what = "header"
     IN /\ prop' = IF c = None THEN prop ELSE [prop EXCEPT ![k] = None]
        /\ pending' = [pending EXCEPT ![k] =
             IF IsData(k) /\ header THEN [c EXCEPT !.incr = TRUE, !.parts = 0] ELSE None]
        /\ events' = IF c # None /\ c.what = "targets"
                     THEN Append(events, HostSelectionChanged(
                            IF prop[k] # None /\ prop[k].what = "targets" THEN prop[k].sel ELSE None))
                     ELSE events
        /\ got' = IF IsData(k) /\ ~header THEN [got EXCEPT ![c.paste] = Bytes(k)] ELSE got
  /\ UNCHANGED <<suppress, toHost, ours, outgoing, notified>>

\* handle_incr_chunk: an empty chunk, and also a property that is gone, ends
\* the transfer.
OnNewValue(e) ==
  /\ e.type = "newValue"
  /\ toEmthin' = Tail(toEmthin)
  /\ LET k == e.prop
         c == pending[k]
         last == prop[k] = None \/ prop[k].what = "end"
     IN IF IsData(k) /\ c.incr
        THEN /\ prop' = [prop EXCEPT ![k] = None]
             /\ pending' = [pending EXCEPT ![k] = IF last THEN None ELSE [c EXCEPT !.parts = @ + 1]]
             /\ got' = IF ~last THEN got
                       ELSE [got EXCEPT ![c.paste] =
                              IF prop[k] # None /\ c.parts = 1 THEN prop[k].sel ELSE "part"]
        ELSE UNCHANGED <<prop, pending, got>>
  /\ UNCHANGED <<suppress, events, toHost, ours, outgoing, notified>>

-----------------------------------------------------------------------------
(* Answers to who asks for a selection of ours: another window, or, when a   *)
(* conversion of ours ends up with us, our own.                              *)

Answer(f, k, ok, content, given) ==
  IF f \in HostPastes
  THEN /\ notified' = [notified EXCEPT ![f] = @ + 1]
       /\ got' = [got EXCEPT ![f] = given]
       /\ toEmthin' = Tail(toEmthin)
       /\ UNCHANGED prop
  ELSE /\ prop' = IF ok THEN [prop EXCEPT ![k] = content] ELSE prop
       /\ toEmthin' = Tail(toEmthin) \o (IF ok THEN <<NewValue(k)>> ELSE <<>>) \o <<Notify(k, ok)>>
       /\ UNCHANGED <<notified, got>>

\* on_selection_request, short of data: nothing to give, no pipe, or a list.
OnAskAnswered(e) ==
  /\ e.type = "ask"
  /\ \/ /\ ours = None \/ e.target \in {"data", "unknown"}
        /\ Answer(e.paste, e.prop, FALSE, None, "eof")
        /\ refused' = (refused \/ e.paste \in ClientPastes)
     \/ /\ ours # None /\ e.target = "targets"
        /\ Answer(e.paste, e.prop, TRUE, Holds("targets", ours), "part")
        /\ UNCHANGED refused
  /\ UNCHANGED <<suppress, events, toHost, pending, ours, outgoing>>

OnAskData(e) ==
  /\ e.type = "ask" /\ ours # None /\ e.target = "data"
  /\ toEmthin' = Tail(toEmthin)
  /\ outgoing' = [outgoing EXCEPT ![e.paste] = "asked"]
  /\ events' = Append(events, HostSendRequest(e.paste))
  /\ UNCHANGED <<suppress, toHost, pending, got, prop, ours, notified>>

XDispatch ==
  /\ toEmthin # <<>>
  /\ LET e == Head(toEmthin) IN
     \/ OnAskAnswered(e)
     \/ /\ OnXfixes(e) \/ OnRefusal(e) \/ OnNotify(e) \/ OnNewValue(e) \/ OnAskData(e)
        /\ UNCHANGED refused
  /\ UNCHANGED <<backend, hostOwner, made, incr>>

\* set_host_selection and clear_host_selection
XSet(c) ==
  /\ toHost' = Append(toHost, [type |-> "set", sel |-> c])
  /\ ours' = c
  /\ suppress' = suppress + 1
  /\ UNCHANGED <<pending, prop, incr, outgoing, notified>>

\* receive_from_host; a type without an atom closes the descriptor.
XReceive(p) ==
  \/ /\ toHost' = Append(toHost, Convert("data", "SEL", p))
     /\ pending' = [pending EXCEPT !["SEL"] = [what |-> "data", paste |-> p, incr |-> FALSE, parts |-> 0]]
     /\ got' = [Displaced("SEL") EXCEPT ![p] = "waiting"]
  \/ got' = [got EXCEPT ![p] = "eof"] /\ UNCHANGED <<toHost, pending>>

\* A mutant of Retired: the request stays, and is answered again.
StillThere(f) == UNCHANGED outgoing
Retired(f) == outgoing' = [outgoing EXCEPT ![f] = "none"]

\* complete_outgoing: more than one chunk of data is announced with an INCR
\* header; the chunks would follow the requestor's deletions, which we have not
\* selected for.
XComplete(f, data) ==
  /\ Retired(f)
  /\ IF f \in HostPastes
     THEN /\ notified' = [notified EXCEPT ![f] = @ + 1]
          /\ got' \in {[got EXCEPT ![f] = data]} \cup {[got EXCEPT ![f] = "part"] : x \in {data} \cap Copies}
          /\ UNCHANGED <<prop, toEmthin>>
     ELSE /\ Answered("SEL", IF data \in Copies THEN Holds("data", data) ELSE None)
          /\ UNCHANGED <<notified, got>>
=============================================================================
