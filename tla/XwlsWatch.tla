----------------------------- MODULE XwlsWatch -----------------------------
(* The supervisor of xwayland-satellite: the main loop, which watches the    *)
(* X11 sockets while no satellite runs, the spawner thread, which starts     *)
(* the satellite and waits for its exit, and the channel by which the thread *)
(* asks for the watch to be installed again.                                *)
EXTENDS Naturals, FiniteSets

CONSTANTS
  Clients,                 \* X11 clients
  MaxFaults                \* bound: how many calls may fail

Sockets == {"unix", "abstract"}

VARIABLES
  state,                   \* WatchState; "Unset" before start-up, "Off" if it failed
  sources,                 \* sockets with a source in the event loop
  spawner,                 \* the thread: none, starting, waiting or leaving
  channel,                 \* Rearm messages on their way to the main loop
  client,                  \* client -> idle, waiting at a socket, served or refused
  faults,                  \* how many calls have failed
  terminal                 \* nothing will install the watch again

main == <<state, sources>>
vars == <<main, spawner, channel, client, faults, terminal>>

Waiting(s) == {c \in Clients : client[c] = s}

TypeOK ==
  /\ state \in {"Disarmed", "Watching", "Running", "Unset", "Off"}
  /\ sources \subseteq Sockets
  /\ spawner \in {"none", "starting", "waiting", "leaving"}
  /\ channel \in Nat
  /\ client \in [Clients -> Sockets \cup {"idle", "served", "refused"}]
  /\ faults \in 0 .. MaxFaults
  /\ terminal \in BOOLEAN

\* A mutant of Armed: the abstract socket is forgotten.
ArmedUnix == state' = "Watching" /\ sources' = {"unix"}

\* arm: the descriptors are cloned and both sources inserted. A source that is
\* in when the second one fails stays in, and its token is lost.
Armed == state' = "Watching" /\ sources' = Sockets
ArmFails == state' = "Disarmed" /\ sources' \in {{}, {"unix"}}

CanFail == faults < MaxFaults
Fault == CanFail /\ faults' = faults + 1

Init ==
  /\ state = "Unset"
  /\ sources = {}
  /\ spawner = "none"
  /\ channel = 0
  /\ client = [c \in Clients |-> "idle"]
  /\ faults = 0
  /\ terminal = FALSE

\* start_xwayland_satellite, with the sockets bound: if the watch cannot be
\* installed the integration is dropped.
Start ==
  /\ state = "Unset"
  /\ \/ Armed /\ UNCHANGED <<faults, terminal>>
     \/ /\ Fault
        /\ state' = "Off"
        /\ sources' \in {{}, {"unix"}}
        /\ terminal' = TRUE
  /\ UNCHANGED <<spawner, channel, client>>

\* A client connects: the kernel queues it, whoever will accept it.
ClientConnects(c, s) ==
  /\ state \notin {"Unset", "Off"}
  /\ client[c] = "idle"
  /\ client' = [client EXCEPT ![c] = s]
  /\ UNCHANGED <<main, spawner, channel, faults, terminal>>

\* The client ends, or has been turned away.
ClientLeaves(c) ==
  /\ client[c] # "idle"
  /\ client' = [client EXCEPT ![c] = "idle"]
  /\ UNCHANGED <<main, spawner, channel, faults, terminal>>

\* A mutant of Unwatched: only the source that fired is removed.
UnwatchedSelf(s) == sources' = sources \ {s}

\* Both sources go, whichever fired.
Unwatched(s) == sources' = {}

\* on_socket_connect, from the source of a socket that is readable. If the
\* thread cannot be started the watch is installed again at once, with the
\* client still in the queue.
SocketReady(s) ==
  /\ s \in sources
  /\ Waiting(s) # {}
  /\ \/ /\ state = "Watching"
        /\ \/ /\ state' = "Running"
              /\ Unwatched(s)
              /\ spawner' = "starting"
              /\ UNCHANGED <<faults, terminal>>
           \/ /\ Fault
              /\ Armed
              /\ UNCHANGED <<spawner, terminal>>
           \/ /\ Fault
              /\ ArmFails
              /\ terminal' = TRUE
              /\ UNCHANGED spawner
     \/ /\ state # "Watching"
        /\ sources' = sources \ {s}
        /\ UNCHANGED <<state, spawner, faults, terminal>>
  /\ UNCHANGED <<channel, client>>

\* A mutant of Spawn: a satellite that cannot be run asks for nothing.
SpawnOrNothing ==
  /\ spawner = "starting"
  /\ \/ spawner' = "waiting" /\ UNCHANGED faults
     \/ spawner' = "none" /\ Fault
  /\ UNCHANGED <<main, channel, client, terminal>>

\* The thread runs the satellite, or fails to and leaves.
Spawn ==
  /\ spawner = "starting"
  /\ \/ spawner' = "waiting" /\ UNCHANGED faults
     \/ spawner' = "leaving" /\ Fault
  /\ UNCHANGED <<main, channel, client, terminal>>

\* The satellite has inherited the listening sockets.
SatelliteServes(c) ==
  /\ spawner = "waiting"
  /\ client[c] \in Sockets
  /\ client' = [client EXCEPT ![c] = "served"]
  /\ UNCHANGED <<main, spawner, channel, faults, terminal>>

\* It crashes or ends, and its clients lose their server.
SatelliteExits ==
  /\ spawner = "waiting"
  /\ spawner' = "leaving"
  /\ client' = [c \in Clients |-> IF client[c] = "served" THEN "refused" ELSE client[c]]
  /\ UNCHANGED <<main, channel, faults, terminal>>

RequestRearm ==
  /\ spawner = "leaving"
  /\ spawner' = "none"
  /\ channel' = channel + 1
  /\ UNCHANGED <<main, client, faults, terminal>>

\* drain_pending_in_place turns away whoever is in the queues.
Drained == client' = [c \in Clients |-> IF client[c] \in Sockets THEN "refused" ELSE client[c]]

\* A mutant of OnRearm: arm finds a state other than Disarmed and returns.
OnRearmRunning ==
  /\ channel > 0
  /\ channel' = channel - 1
  /\ Drained
  /\ UNCHANGED <<main, spawner, faults, terminal>>

\* on_rearm: an error of draining leaves everything as it is, one of arming
\* leaves the supervisor disarmed.
OnRearm ==
  /\ channel > 0
  /\ channel' = channel - 1
  /\ \/ Drained /\ Armed /\ UNCHANGED <<faults, terminal>>
     \/ Drained /\ ArmFails /\ Fault /\ terminal' = TRUE
     \/ Fault /\ terminal' = TRUE /\ UNCHANGED <<main, client>>
  /\ UNCHANGED spawner

MainLoop == Start \/ OnRearm \/ \E s \in Sockets : SocketReady(s)
Thread == Spawn \/ RequestRearm
Satellite == SatelliteExits \/ \E c \in Clients : SatelliteServes(c)
Outside == \E c \in Clients : ClientLeaves(c) \/ \E s \in Sockets : ClientConnects(c, s)

Next == MainLoop \/ Thread \/ Satellite \/ Outside

Spec == Init /\ [][Next]_vars

----------------------------------------------------------------------------
(* Properties                                                              *)

\* Unless a failure was terminal, someone looks after the sockets: the event
\* loop watches both of them and nothing else is under way, or one thread runs
\* a satellite or has asked for the watch to come back.
LookedAfter ==
  ~terminal /\ state # "Unset" =>
    \/ state = "Watching" /\ sources = Sockets /\ spawner = "none" /\ channel = 0
    \/ /\ state = "Running" /\ sources = {}
       /\ spawner = "none" <=> channel = 1
       /\ channel \in {0, 1}

\* The event loop and a satellite never compete for the same connections, and
\* there is one satellite at most: a socket that became readable together with
\* the other one starts no second thread.
NeverBoth == spawner # "none" => sources = {}
=============================================================================
