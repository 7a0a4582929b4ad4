------------------------------ MODULE Xwayland ------------------------------
(* X11 support as a whole: compositors that claim a display (DisplayClaim),  *)
(* one of which then supervises a satellite on the sockets it got            *)
(* (XwlsWatch). Clients find those sockets by the display's number.          *)
EXTENDS DisplayClaim

CONSTANTS
  Me,                      \* the compositor whose supervisor is modelled
  Clients,
  MaxFaults

ASSUME WatchAssumption == Me \in Procs /\ MaxFaults \in Nat

VARIABLES state, sources, spawner, channel, client, faults, terminal

watchVars == <<state, sources, spawner, channel, client, faults, terminal>>
allVars == <<vars, watchVars>>

Watch == INSTANCE XwlsWatch

InitXwayland == Init /\ pc[Me] = "create" /\ Watch!Init

\* The abstract name cannot be taken over, the path can be unlinked.
Reachable(s) ==
  IF s = "unix" THEN path[slot[Me]] = Me ELSE abstract[slot[Me]] = Me

Claiming == Next /\ UNCHANGED watchVars

Supervising ==
  /\ pc[Me] = "holds"
  /\ \/ Watch!MainLoop
     \/ Watch!Thread
     \/ Watch!Satellite
     \/ \E c \in Clients :
          \/ Watch!ClientLeaves(c)
          \/ \E s \in Watch!Sockets : Reachable(s) /\ Watch!ClientConnects(c, s)
  /\ UNCHANGED vars

NextXwayland == Claiming \/ Supervising

SpecXwayland == InitXwayland /\ [][NextXwayland]_allVars

\* The call made by a process that has things to do is made; the main loop and
\* the thread keep running; a satellite accepts who waits.
Supervised(A) == pc[Me] = "holds" /\ A /\ UNCHANGED vars
FairXwayland ==
  /\ SpecXwayland
  /\ \A p \in Procs : WF_allVars(Claim(p) /\ UNCHANGED watchVars)
  /\ WF_allVars(Supervised(Watch!Start)) /\ WF_allVars(Supervised(Watch!OnRearm))
  /\ \A s \in Watch!Sockets : WF_allVars(Supervised(Watch!SocketReady(s)))
  /\ WF_allVars(Supervised(Watch!Spawn)) /\ WF_allVars(Supervised(Watch!RequestRearm))
  /\ \A c \in Clients : WF_allVars(Supervised(Watch!SatelliteServes(c)))

----------------------------------------------------------------------------
(* Properties                                                              *)

LookedAfter == Watch!LookedAfter
NeverBoth == Watch!NeverBoth

Down == terminal \/ pc[Me] # "holds"

\* A client that connects is served or turned away, never left in the queue,
\* whatever fails, as long as the watch can be installed again.
ClientAnswered ==
  \A c \in Clients : client[c] \in Watch!Sockets ~> (client[c] \notin Watch!Sockets \/ Down)

\* Crashes of the satellite are handled transparently (start-up's words): each
\* one is followed by a watch on both sockets.
WatchComesBack == spawner = "leaving" ~> (sources = Watch!Sockets \/ Down)
=============================================================================
