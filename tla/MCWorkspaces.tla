---------------------------- MODULE MCWorkspaces ----------------------------
(* Workspaces for TLC: what the runs leave out to stay small. *)
EXTENDS Workspaces, TLC

\* Toplevels of one kind are interchangeable (for runs without liveness).
Symmetry == Permutations(Frames) \cup Permutations(Clients)

\* The host window keeps the keyboard and nobody presses WakeUp.
HostKeepsFocus == hostFocused /\ lastApp = None

\* No frame is lowered beneath another one of Emacs.
HostKeepsSize == \A w \in WsIds : over[w] = {}

\* Emacs shows no app in two places.
NoMirrors == \A c \in Clients : app[c].mirror = NoWs

\* Nobody dies, and Emacs gives no app a place: only who has the keyboard, and
\* who is to get it back, changes.
FocusOnly ==
  /\ NoMirrors
  /\ \A t \in Toplevels : life[t] /= "dead"
  /\ \A c \in Clients : app[c].pend = "none" /\ ~app[c].visible

\* Of three frames, what becomes of them or who has the keyboard: all that both
\* bring about in one behaviour is out of reach.
FramesOrFocus == (HostKeepsFocus /\ HostKeepsSize /\ NoMirrors) \/ FocusOnly

\* A fair system whose host keeps both and Emacs shows no mirror, for the liveness run.
QuietNext == Next /\ HostKeepsFocus' /\ HostKeepsSize' /\ NoMirrors'

QuietSpec == Init /\ [][QuietNext]_vars /\ Fairness
=============================================================================
