----------------------------- MODULE EmacsView ------------------------------
(***************************************************************************)
(* What emthin promises Emacs over IPC about apps and workspaces: the      *)
(* abstract specification that Workspaces implements.  The state is what   *)
(* the messages sent so far say; one step is one batch of messages, as     *)
(* Emacs reads them.                                                       *)
(***************************************************************************)
EXTENDS Naturals

CONSTANTS
  Windows,      \* what may ever be announced as an app
  Ids           \* what may ever be a workspace id

VARIABLES
  apps,         \* created, not destroyed
  usedApps,     \* ever created, or known never to become an app
  workspaces,   \* created, not destroyed
  usedIds,      \* ids ever created
  active        \* the last one switched to

view == <<apps, usedApps, workspaces, usedIds, active>>

Init ==
  /\ apps = {}
  /\ usedApps = {}
  /\ workspaces = {1}
  /\ usedIds = {1}
  /\ active = 1

\* A window is announced once, in its life.
WindowCreated ==
  \E c \in Windows \ usedApps :
    /\ apps' = apps \cup {c}
    /\ usedApps' = usedApps \cup {c}
    /\ UNCHANGED <<workspaces, usedIds, active>>

\* A window turns out to be no app: Emacs never hears of it.
WindowPassedOver ==
  \E c \in Windows \ usedApps :
    /\ usedApps' = usedApps \cup {c}
    /\ UNCHANGED <<apps, workspaces, usedIds, active>>

\* Only what was announced is destroyed.
WindowsDestroyed ==
  /\ apps' \subseteq apps
  /\ UNCHANGED <<usedApps, workspaces, usedIds, active>>

\* A workspace comes with an id of its own, and is switched to at once.
WorkspaceCreated ==
  \E w \in Ids \ usedIds :
    /\ workspaces' = workspaces \cup {w}
    /\ usedIds' = usedIds \cup {w}
    /\ active' = w
    /\ UNCHANGED <<apps, usedApps>>

WorkspaceSwitched ==
  /\ active' \in workspaces
  /\ UNCHANGED <<apps, usedApps, workspaces, usedIds>>

\* The active workspace is never destroyed.  Apps may go along with others,
\* and another workspace may become the active one.
WorkspacesDestroyed ==
  /\ workspaces' \subseteq workspaces
  /\ active \in workspaces'
  /\ active' \in workspaces'
  /\ apps' \subseteq apps
  /\ UNCHANGED <<usedApps, usedIds>>

Next ==
  \/ WindowCreated \/ WindowPassedOver \/ WindowsDestroyed
  \/ WorkspaceCreated \/ WorkspaceSwitched \/ WorkspacesDestroyed

Spec == Init /\ [][Next]_view
=============================================================================
