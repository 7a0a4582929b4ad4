--------------------------- MODULE ClipboardHost ---------------------------
(* What every clipboard backend shares: the host's selection, the requests   *)
(* on their way to the host and the events on their way back, the counter    *)
(* that is to swallow our own echoes, the queue of events the compositor     *)
(* takes at its next tick, and what each paste has received.                *)
(* A copy stands for the selection it makes, its types and its data.         *)
EXTENDS Naturals, Sequences

CONSTANTS
  ClientCopies,            \* copies made by clients of the compositor
  HostCopies,              \* copies made by applications of the host
  ClientPastes,            \* pastes asked by clients of a selection of the host
  HostPastes,              \* pastes asked by the host of a client's selection
  None,
  InFlight                 \* bound: what the two sides may have on its way

ASSUME CopiesAssumption ==
  /\ None \notin ClientCopies \cup HostCopies \cup ClientPastes \cup HostPastes
  /\ "idle" \notin ClientCopies \cup HostCopies
  /\ ClientCopies \cap HostCopies = {}
  /\ ClientPastes \cap HostPastes = {}
  /\ InFlight \in Nat

Copies == ClientCopies \cup HostCopies
Pastes == ClientPastes \cup HostPastes

VARIABLES
  backend,                 \* which backend init() found, "none" if no one answered
  hostOwner,               \* the copy that is the host's selection
  made,                    \* copies made so far
  toHost,                  \* requests the host has not processed
  toEmthin,                \* events the backend has not dispatched
  suppress,                \* suppress_clipboard
  events,                  \* dispatched events the tick has not taken
  got,                     \* paste -> idle, waiting, eof or the copy it was given
  refused                  \* an X11 owner has refused a conversion (history)

hostVars == <<backend, hostOwner, made, toHost, toEmthin, suppress, events, got, refused>>

\* init(): the first backend of the chain that the host supports.
Chain == <<"data_control", "wl_data_device", "x11">>
InitBackend(supported) ==
  IF \E i \in DOMAIN Chain : Chain[i] \in supported
  THEN Chain[CHOOSE i \in DOMAIN Chain :
               Chain[i] \in supported /\ \A j \in 1 .. i - 1 : Chain[j] \notin supported]
  ELSE "none"

\* Events of the host. `ours` tells whether a change answers a request of ours:
\* nothing on the wire says so.
Selection(s, ours) == [type |-> "selection", sel |-> s, ours |-> ours]
Cancelled(c) == [type |-> "cancelled", sel |-> c]
Send(c, f) == [type |-> "send", sel |-> c, paste |-> f]

\* ClipboardEvent
HostSelectionChanged(s) == [type |-> "changed", sel |-> s]
HostSendRequest(f) == [type |-> "request", paste |-> f]
SourceCancelled == [type |-> "sourceCancelled"]

Room == Len(toHost) + Len(toEmthin) + Len(events) < InFlight
Waiting(f) == got[f] = "waiting"
=============================================================================
