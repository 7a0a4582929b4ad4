------------------------- MODULE Workspaces_proofs -------------------------
(***************************************************************************)
(* What the compositor's core keeps, for any number of Emacs frames,       *)
(* clients and workspaces.  Three strengthenings are inductive where the   *)
(* properties alone are not:                                               *)
(*   - FrameInv: an Emacs toplevel that waits in pending_emacs_toplevels   *)
(*     waits there once and is no workspace's frame yet (FrameMapped and   *)
(*     FramesDistinct need it: otherwise CreateWorkspace could unmap the   *)
(*     frame of a workspace);                                              *)
(*   - StopInv: a dead main frame that stopped the loop stays what it is   *)
(*     until the loop ends (for StopOnlyWhenAllDead);                      *)
(*   - QueueInv: a client's toplevel waits in pending_app_toplevels once   *)
(*     (for the refinement of EmacsView).                                  *)
(***************************************************************************)
EXTENDS Workspaces, TLAPS

\* Setting a field of an AppWindow gives an AppWindow.
LEMMA AppUpdates ==
  ASSUME NEW a \in App
  PROVE  /\ \A b \in BOOLEAN : [a EXCEPT !.visible = b] \in App
         /\ \A b \in BOOLEAN : [a EXCEPT !.placed = b] \in App
         /\ \A p \in {"none", "waiting", "due"} : [a EXCEPT !.pend = p] \in App
         /\ \A m \in WsIds \cup {NoWs} : [a EXCEPT !.mirror = m] \in App
         /\ \A w \in WsIds : [a EXCEPT !.ws = w] \in App
<1>1. ASSUME NEW b \in BOOLEAN PROVE [a EXCEPT !.visible = b] \in App
  BY DEF App
<1>2. ASSUME NEW b \in BOOLEAN PROVE [a EXCEPT !.placed = b] \in App
  BY DEF App
<1>3. ASSUME NEW p \in {"none", "waiting", "due"} PROVE [a EXCEPT !.pend = p] \in App
  BY DEF App
<1>4. ASSUME NEW m \in WsIds \cup {NoWs} PROVE [a EXCEPT !.mirror = m] \in App
  BY DEF App
<1>5. ASSUME NEW w \in WsIds PROVE [a EXCEPT !.ws = w] \in App
  BY DEF App
<1> QED
  BY <1>1, <1>2, <1>3, <1>4, <1>5

\* migrate_app_to_active keeps an AppWindow one.
LEMMA MigratedIsApp ==
  ASSUME NEW a \in App, active \in WsIds
  PROVE  Migrated(a) \in App
<1>1. [a EXCEPT !.ws = active] \in App
  BY AppUpdates
<1>2. [[a EXCEPT !.ws = active] EXCEPT !.placed = FALSE] \in App
  BY <1>1, AppUpdates
<1>3. [[[a EXCEPT !.ws = active] EXCEPT !.placed = FALSE] EXCEPT !.pend = "none"] \in App
  BY <1>2, AppUpdates
<1> QED
  BY <1>3 DEF Migrated

\* Committing a pending geometry keeps every AppWindow one.
LEMMA SettledIsApp ==
  ASSUME app \in [Clients -> App], NEW c \in Clients
  PROVE  [app EXCEPT ![c].placed = TRUE, ![c].pend = "none"] \in [Clients -> App]
<1>1. [[app[c] EXCEPT !.placed = TRUE] EXCEPT !.pend = "none"] \in App
  BY AppUpdates
<1> QED
  BY <1>1

\* Replacing the entry of one app keeps the others.
LEMMA AppReplaced ==
  ASSUME app \in [Clients -> App], NEW c \in Clients, NEW a \in App
  PROVE  [app EXCEPT ![c] = a] \in [Clients -> App]
  OBVIOUS

\* The program starts in a state of the right types.
LEMMA InitType == Init => TypeOK
  BY ConstantsAssumption
  DEF Init, TypeOK, App, NewApp, WsIds, Toplevels, Targets, Phases, NoWs,
      ByWorkspaceAffinity

\* register_embedded_app inserts an AppWindow.
LEMMA NewAppIsApp == ASSUME NEW w \in WsIds PROVE NewApp(w) \in App
  BY DEF App, NewApp, NoWs

\* Every step keeps the apps AppWindows.
LEMMA AppStep ==
  ASSUME TypeOK, [Next]_vars
  PROVE  app' \in [Clients -> App]
<1> DEFINE AppsOK == app' \in [Clients -> App]
<1>1. active \in WsIds /\ app \in [Clients -> App] /\ 1 \in WsIds
  BY ConstantsAssumption DEF TypeOK, WsIds
<1>2. ASSUME NEW c \in Clients, Commit(c) PROVE AppsOK
  BY <1>1, <1>2, SettledIsApp DEF Commit
<1>3. ASSUME NEW c \in Clients, TimerElapses(c) PROVE AppsOK
  <2>1. [app[c] EXCEPT !.pend = "due"] \in App
    BY <1>1, AppUpdates
  <2> QED
    BY <1>1, <1>3, <2>1, AppReplaced DEF TimerElapses
<1>4. CASE RegisterApp
  BY <1>1, <1>4, NewAppIsApp, AppReplaced DEF RegisterApp, TypeOK
<1>5. ASSUME NEW ids, Forget(ids) PROVE AppsOK
  BY <1>1, <1>5, NewAppIsApp DEF Forget
<1>6. CASE CleanupDeadApps
  BY <1>1, <1>6, NewAppIsApp DEF CleanupDeadApps
<1>7. ASSUME NEW c \in Clients, SetGeometry(c) PROVE AppsOK
  <2> DEFINE a == Migrated([app[c] EXCEPT !.visible = TRUE])
  <2>1. a \in App
    BY <1>1, AppUpdates, MigratedIsApp
  <2>2. [a EXCEPT !.placed = TRUE] \in App /\ [a EXCEPT !.pend = "waiting"] \in App
    BY <2>1, AppUpdates
  <2> HIDE DEF a
  <2>3. app' = [app EXCEPT ![c] = [a EXCEPT !.placed = TRUE]]
        \/ app' = [app EXCEPT ![c] = [a EXCEPT !.pend = "waiting"]]
    BY <1>7 DEF SetGeometry, a
  <2> QED
    BY <1>1, <2>2, <2>3, AppReplaced
<1>8. ASSUME NEW c \in Clients, HideApp(c) PROVE AppsOK
  <2>1. [app[c] EXCEPT !.visible = FALSE] \in App
    BY <1>1, AppUpdates
  <2> QED
    BY <1>1, <1>8, <2>1, AppReplaced DEF HideApp
<1>9. ASSUME NEW c \in Clients, ShowApp(c) PROVE AppsOK
  <2>1. [app[c] EXCEPT !.visible = TRUE] \in App
    BY <1>1, AppUpdates
  <2>2. [[Migrated(app[c]) EXCEPT !.visible = TRUE] EXCEPT !.placed = TRUE] \in App
    BY <1>1, AppUpdates, MigratedIsApp
  <2> QED
    BY <1>1, <1>9, <2>1, <2>2, AppReplaced DEF ShowApp
<1>10. ASSUME NEW c \in Clients, AddMirror(c) PROVE AppsOK
  <2>1. [app[c] EXCEPT !.mirror = active] \in App
    BY <1>1, AppUpdates
  <2> QED
    BY <1>1, <1>10, <2>1, AppReplaced DEF AddMirror
<1>11. ASSUME NEW c \in Clients, RemoveMirror(c) PROVE AppsOK
  <2>1. [app[c] EXCEPT !.mirror = NoWs] \in App
    BY <1>1, AppUpdates
  <2> QED
    BY <1>1, <1>11, <2>1, AppReplaced DEF RemoveMirror
<1>12. ASSUME NEW c \in Clients, PromoteMirror(c) PROVE AppsOK
  <2>1. app[c].mirror \in WsIds
    BY <1>1, <1>12 DEF PromoteMirror, App
  <2>2. [[[app[c] EXCEPT !.mirror = NoWs] EXCEPT !.placed = TRUE]
           EXCEPT !.ws = app[c].mirror] \in App
    BY <1>1, <2>1, AppUpdates
  <2> QED
    BY <1>1, <1>12, <2>2, AppReplaced DEF PromoteMirror
<1>13. CASE ForceCommit
  <2>1. \A c \in Clients : [[app[c] EXCEPT !.placed = TRUE] EXCEPT !.pend = "none"] \in App
    BY <1>1, AppUpdates
  <2> QED
    BY <1>1, <1>13, <2>1 DEF ForceCommit
<1>14. CASE UNCHANGED app
  BY <1>1, <1>14
<1> QED
  BY <1>2, <1>3, <1>4, <1>5, <1>6, <1>7, <1>8, <1>9, <1>10, <1>11, <1>12, <1>13, <1>14
  DEF Next, Environment, Requests, Tick, vars, appVars, ClaimMain, NewFrame, NewClient, Die,
      Click, WakeUp, Redraw, Relayout, HostFocusLeave, HostFocusEnter, ActivateWorkspace,
      RemoveWorkspace, SetFocus, SetMigrationPolicy, StartTick, KeepChildFrame,
      CreateWorkspace, EndToplevels, DropDeadToplevel, PromoteDialog, EndApps, EndActions,
      DetectDead, CleanupDeadDialogs, EndIpc

\* Windows leave a Space, as SpaceMigrated and ipc_set_visibility make them.
LEMMA SpaceUpdates ==
  ASSUME TypeOK, NEW c \in Clients
  PROVE  /\ [space EXCEPT ![app[c].ws] = @ \ {c}] \in [WsIds -> SUBSET Toplevels]
         /\ SpaceMigrated(c) \in [WsIds -> SUBSET Toplevels]
<1>1. space \in [WsIds -> SUBSET Toplevels]
  BY DEF TypeOK
<1> QED
  BY <1>1 DEF SpaceMigrated

\* Every step of the event loop and of its environment keeps the types.
LEMMA TypeStep == TypeOK /\ [Next]_vars => TypeOK'
<1> SUFFICES ASSUME TypeOK, [Next]_vars PROVE TypeOK'
  OBVIOUS
<1>1. app' \in [Clients -> App]
  BY AppStep
<1> USE ConstantsAssumption, <1>1
    DEF TypeOK, WsIds, Toplevels, Targets, Phases, ByWorkspaceAffinity, Manual, wsVars, appVars,
        queueVars, focusVars, hostVars, toldVars
<1>2. ASSUME NEW e \in Frames, ClaimMain(e) PROVE TypeOK'
  BY <1>2 DEF ClaimMain
<1>3. ASSUME NEW e \in Frames, NewFrame(e) PROVE TypeOK'
  BY <1>3 DEF NewFrame
<1>4. ASSUME NEW c \in Clients, NewClient(c) PROVE TypeOK'
  BY <1>4 DEF NewClient
<1>5. ASSUME NEW c \in Clients, Commit(c) PROVE TypeOK'
  BY <1>5 DEF Commit
<1>6. ASSUME NEW c \in Clients, TimerElapses(c) PROVE TypeOK'
  BY <1>6 DEF TimerElapses
<1>7. ASSUME NEW t \in Toplevels, Die(t) PROVE TypeOK'
  BY <1>7 DEF Die, FocusAfterDeath
<1>8. ASSUME NEW t \in Toplevels \cup {None}, Click(t) PROVE TypeOK'
  BY <1>8 DEF Click, EmacsTarget
<1>9. CASE WakeUp
  BY <1>9 DEF WakeUp, EmacsTarget
<1>10. CASE Redraw
  BY <1>10 DEF Redraw
<1>11. CASE HostFocusLeave
  BY <1>11 DEF HostFocusLeave
<1>12. CASE HostFocusEnter
  BY <1>12 DEF HostFocusEnter
<1>13. ASSUME NEW w \in WsIds, ActivateWorkspace(w) PROVE TypeOK'
  BY <1>13 DEF ActivateWorkspace, SwitchTo, Resync, ResetFocusState, EmacsTarget
<1>14. ASSUME NEW w \in WsIds, RemoveWorkspace(w) PROVE TypeOK'
  BY <1>14 DEF RemoveWorkspace, Forget, SpaceWithout
<1>15. ASSUME NEW c \in Clients, SetGeometry(c) PROVE TypeOK'
  <2> DEFINE sp == SpaceMigrated(c)
  <2>1. sp \in [WsIds -> SUBSET Toplevels]
    BY SpaceUpdates
  <2> HIDE DEF sp
  <2>3. [sp EXCEPT ![active] = @ \cup {c}] \in [WsIds -> SUBSET Toplevels]
    BY <2>1
  <2>4. space' \in [WsIds -> SUBSET Toplevels]
    BY <1>15, <2>1, <2>3 DEF SetGeometry, sp
  <2>2. RequestFrame
    BY <1>15 DEF SetGeometry
  <2> QED
    BY <2>2, <2>4 DEF RequestFrame
<1>16. ASSUME NEW c \in Clients, HideApp(c) PROVE TypeOK'
  <2>1. space' \in [WsIds -> SUBSET Toplevels]
    BY <1>16, SpaceUpdates DEF HideApp
  <2>2. RequestFrame
    BY <1>16 DEF HideApp
  <2> QED
    BY <2>1, <2>2 DEF RequestFrame
<1>17. ASSUME NEW c \in Clients, ShowApp(c) PROVE TypeOK'
  <2> DEFINE sp == SpaceMigrated(c)
  <2>1. sp \in [WsIds -> SUBSET Toplevels]
    BY SpaceUpdates
  <2> HIDE DEF sp
  <2>3. [sp EXCEPT ![active] = @ \cup {c}] \in [WsIds -> SUBSET Toplevels]
    BY <2>1
  <2>4. space' \in [WsIds -> SUBSET Toplevels]
    BY <1>17, <2>1, <2>3 DEF ShowApp, sp
  <2>2. RequestFrame
    BY <1>17 DEF ShowApp
  <2> QED
    BY <2>2, <2>4 DEF RequestFrame
<1>18. ASSUME NEW c \in Clients, AddMirror(c) PROVE TypeOK'
  BY <1>18 DEF AddMirror, RequestFrame
<1>19. ASSUME NEW c \in Clients, RemoveMirror(c) PROVE TypeOK'
  BY <1>19 DEF RemoveMirror, RequestFrame
<1>20. ASSUME NEW c \in Clients, PromoteMirror(c) PROVE TypeOK'
  BY <1>20 DEF PromoteMirror, RequestFrame
<1>21. ASSUME NEW c \in Clients \cup {None}, SetFocus(c) PROVE TypeOK'
  BY <1>21 DEF SetFocus, EmacsTarget
<1>22. ASSUME NEW p \in Policies, SetMigrationPolicy(p) PROVE TypeOK'
  BY <1>22 DEF SetMigrationPolicy
<1>23. CASE StartTick
  BY <1>23 DEF StartTick
<1>24. CASE KeepChildFrame
  BY <1>24 DEF KeepChildFrame
<1>25. CASE CreateWorkspace
  BY <1>25 DEF CreateWorkspace, SwitchTo, Resync, ResetFocusState, EmacsTarget
<1>26. CASE EndToplevels
  BY <1>26 DEF EndToplevels
<1>27. CASE DropDeadToplevel
  BY <1>27 DEF DropDeadToplevel
<1>28. CASE PromoteDialog
  BY <1>28 DEF PromoteDialog
<1>29. CASE RegisterApp
  BY <1>29 DEF RegisterApp
<1>30. CASE EndApps
  BY <1>30 DEF EndApps
<1>31. CASE EndActions
  BY <1>31 DEF EndActions
<1>32. CASE DetectDead
  <2> DEFINE gone == DeadWorkspaces
             left == Fallbacks(gone)
  <2>1. /\ phase' = "reapApps"
        /\ Forget(gone)
        /\ UNCHANGED <<nextWs, dialogs, queueVars, policy, hostVars>>
    BY <1>32 DEF DetectDead
  <2>2. /\ gone \subseteq workspaces \ {active}
        /\ left \subseteq workspaces \ (gone \cup {active})
    BY DEF DeadWorkspaces, Fallbacks
  <2>3. /\ workspaces' = workspaces \ gone
        /\ managed' \subseteq Clients
        /\ frame' \in [WsIds -> Frames \cup {None}]
        /\ toldApps' \subseteq Clients
        /\ toldWs' \subseteq WsIds
    BY <2>1 DEF Forget
  <2>4. SpaceWithout(gone) \in [WsIds -> SUBSET Toplevels]
    BY DEF SpaceWithout
  <2> HIDE DEF gone, left
  <2>5. CASE \E w \in left : SwitchTo(w, managed \ AppsOf(gone), frame, SpaceWithout(gone))
    <3>1. PICK w \in left : SwitchTo(w, managed \ AppsOf(gone), frame, SpaceWithout(gone))
      BY <2>5
    <3>2. w \in workspaces'
      BY <2>2, <2>3, <3>1
    <3>3. UNCHANGED stopping
      BY <1>32, <2>5, <3>1 DEF DetectDead, SwitchTo, gone, left
    <3> QED
      BY <2>1, <2>3, <2>4, <3>1, <3>2, <3>3 DEF SwitchTo, Resync, ResetFocusState, EmacsTarget
  <2>6. CASE /\ space' = SpaceWithout(gone)
             /\ stopping' \in {stopping, "lastFrameDied"}
             /\ UNCHANGED <<active, focusVars, toldActive>>
    BY <2>1, <2>2, <2>3, <2>4, <2>6
  <2> QED
    BY <1>32, <2>5, <2>6 DEF DetectDead, gone, left
<1>33. CASE CleanupDeadApps
  BY <1>33 DEF CleanupDeadApps, EmacsTarget
<1>34. CASE CleanupDeadDialogs
  BY <1>34 DEF CleanupDeadDialogs, EmacsTarget
<1>35. CASE EndIpc
  BY <1>35 DEF EndIpc
<1>36. CASE ForceCommit
  <2>1. space' \in [WsIds -> SUBSET Toplevels]
    BY <1>36 DEF ForceCommit, Overdue
  <2>2. /\ phase' \in Phases
        /\ UNCHANGED <<stopping, workspaces, active, nextWs, frame, managed, dialogs, queueVars,
                       policy, focusVars, hostVars, toldVars>>
    BY <1>36 DEF ForceCommit
  <2> QED
    BY <2>1, <2>2
<1>37. CASE Relayout
  BY <1>37 DEF Relayout
<1>38. CASE UNCHANGED vars
  BY <1>38 DEF vars
<1> QED
  BY <1>2, <1>3, <1>4, <1>5, <1>6, <1>7, <1>8, <1>9, <1>10, <1>11, <1>12, <1>13, <1>14, <1>15,
     <1>16, <1>17, <1>18, <1>19, <1>20, <1>21, <1>22, <1>23, <1>24, <1>25, <1>26, <1>27, <1>28,
     <1>29, <1>30, <1>31, <1>32, <1>33, <1>34, <1>35, <1>36, <1>37, <1>38 DEF Next, Environment,
     Requests, Tick

\* Every step keeps the types.
THEOREM TypeCorrect == Spec => []TypeOK
<1> QED
  BY InitType, TypeStep, PTL DEF Spec

----------------------------------------------------------------------------
(* The messages sent to Emacs                                              *)

\* Whatever a step creates, reaps or switches, it tells Emacs.
LEMMA ViewStep == EmacsViewAgrees /\ [Next]_vars => EmacsViewAgrees'
<1> SUFFICES ASSUME EmacsViewAgrees, [Next]_vars PROVE EmacsViewAgrees'
  OBVIOUS
<1> USE DEF EmacsViewAgrees
<1>1. CASE CreateWorkspace
  BY <1>1 DEF CreateWorkspace, SwitchTo, appVars
<1>2. CASE RegisterApp
  BY <1>2 DEF RegisterApp, wsVars
<1>3. ASSUME NEW w \in WsIds, ActivateWorkspace(w) PROVE EmacsViewAgrees'
  BY <1>3 DEF ActivateWorkspace, SwitchTo, appVars
<1>4. ASSUME NEW w \in WsIds, RemoveWorkspace(w) PROVE EmacsViewAgrees'
  BY <1>4 DEF RemoveWorkspace, Forget
<1>5. CASE DetectDead
  <2>1. (toldApps = managed /\ toldWs = workspaces)'
    BY <1>5 DEF DetectDead, Forget
  <2>2. toldActive' = active'
    BY <1>5 DEF DetectDead, SwitchTo
  <2> QED
    BY <2>1, <2>2
<1>6. CASE CleanupDeadApps
  BY <1>6 DEF CleanupDeadApps
<1>7. CASE UNCHANGED <<managed, workspaces, active, toldVars>>
  BY <1>7 DEF toldVars
<1> QED
  BY <1>1, <1>2, <1>3, <1>4, <1>5, <1>6, <1>7
  DEF Next, Environment, Requests, Tick, vars, wsVars, appVars, toldVars, RequestFrame,
      ClaimMain, NewFrame, NewClient, Commit, TimerElapses, Die, Click, WakeUp, Redraw, Relayout,
      HostFocusLeave, HostFocusEnter, SetGeometry, HideApp, ShowApp, AddMirror, RemoveMirror,
      PromoteMirror, SetFocus, SetMigrationPolicy, StartTick, KeepChildFrame, EndToplevels,
      DropDeadToplevel, PromoteDialog, EndApps, EndActions, CleanupDeadDialogs, EndIpc,
      ForceCommit

\* Whatever the environment does and Emacs asks for, the messages sent so far
\* describe the apps, the workspaces and the active workspace there are.
THEOREM ViewCorrect == Spec => []EmacsViewAgrees
<1>1. Init => EmacsViewAgrees
  BY DEF Init, EmacsViewAgrees
<1> QED
  BY <1>1, ViewStep, PTL DEF Spec

----------------------------------------------------------------------------
(* Frames: who owns which Emacs toplevel                                   *)

\* Ids not in use, used up or still to come, have no frame.
IdsFresh ==
  /\ workspaces \subseteq 1 .. nextWs - 1
  /\ \A w \in WsIds \ workspaces : frame[w] = None

\* An Emacs toplevel is the frame of at most one workspace.
OneOwner == \A v, w \in WsIds : v /= w /\ frame[v] = frame[w] => frame[v] = None

\* One that waits for its workspace waits once, and has none yet.
PendingOnce ==
  /\ \A i, j \in DOMAIN pendingFrames : i /= j => pendingFrames[i] /= pendingFrames[j]
  /\ \A i \in DOMAIN pendingFrames, w \in WsIds : pendingFrames[i] /= frame[w]

\* One that is not there yet neither waits nor has a workspace.
UnbornUnknown ==
  \A e \in Frames : life[e] = "unborn" =>
    /\ \A w \in WsIds : frame[w] /= e
    /\ \A i \in DOMAIN pendingFrames : pendingFrames[i] /= e

FrameInv == IdsFresh /\ OneOwner /\ PendingOnce /\ UnbornUnknown

\* The program starts with no frame claimed and none pending.
LEMMA InitFrames == Init => FrameInv
  BY ConstantsAssumption
  DEF Init, FrameInv, IdsFresh, OneOwner, PendingOnce, UnbornUnknown, WsIds

\* destroy_workspace takes frames away and gives none to anybody.
LEMMA ForgetFrames ==
  ASSUME TypeOK, FrameInv, NEW ids \in SUBSET WsIds, Forget(ids),
         UNCHANGED <<nextWs, life, pendingFrames>>
  PROVE  FrameInv'
<1>1. frame' = [w \in WsIds |-> IF w \in ids THEN None ELSE frame[w]]
      /\ workspaces' = workspaces \ ids
  BY DEF Forget
<1>2. \A w \in WsIds : frame'[w] \in {None, frame[w]}
  BY <1>1
<1>3. IdsFresh'
  BY <1>1 DEF FrameInv, IdsFresh, TypeOK
<1>4. OneOwner'
  BY <1>1, <1>2 DEF FrameInv, OneOwner
<1>5. PendingOnce'
  <2>1. \A i \in DOMAIN pendingFrames : pendingFrames[i] /= None
    BY ConstantsAssumption DEF TypeOK
  <2> QED
    BY <1>2, <2>1 DEF FrameInv, PendingOnce
<1>6. UnbornUnknown'
  BY <1>2, ConstantsAssumption DEF FrameInv, UnbornUnknown
<1> QED
  BY <1>3, <1>4, <1>5, <1>6 DEF FrameInv

\* Every step keeps each Emacs toplevel in one role: unborn, pending or a frame.
LEMMA FrameStep == TypeOK /\ FrameInv /\ [Next]_vars => FrameInv'
<1> SUFFICES ASSUME TypeOK, FrameInv, [Next]_vars PROVE FrameInv'
  OBVIOUS
<1> USE ConstantsAssumption
<1>1. ASSUME NEW e \in Frames, ClaimMain(e) PROVE FrameInv'
  <2>1. /\ life[e] = "unborn"
        /\ life' = [life EXCEPT ![e] = "alive"]
        /\ frame' = [frame EXCEPT ![active] = e]
        /\ active \in workspaces
        /\ UNCHANGED <<workspaces, nextWs, pendingFrames>>
    BY <1>1 DEF ClaimMain, queueVars, TypeOK
  <2> QED
    BY <2>1 DEF FrameInv, IdsFresh, OneOwner, PendingOnce, UnbornUnknown, TypeOK, Toplevels
<1>2. ASSUME NEW e \in Frames, NewFrame(e) PROVE FrameInv'
  <2>1. /\ life[e] = "unborn"
        /\ life' = [life EXCEPT ![e] = "alive"]
        /\ pendingFrames' = Append(pendingFrames, e)
        /\ UNCHANGED <<workspaces, nextWs, frame>>
    BY <1>2 DEF NewFrame
  <2>2. \A i \in DOMAIN pendingFrames' :
          \/ i = Len(pendingFrames) + 1 /\ pendingFrames'[i] = e
          \/ i \in DOMAIN pendingFrames /\ pendingFrames'[i] = pendingFrames[i]
    BY <2>1 DEF TypeOK
  <2>3. PendingOnce'
    BY <2>1, <2>2 DEF FrameInv, PendingOnce, UnbornUnknown
  <2>4. UnbornUnknown'
    BY <2>1, <2>2 DEF FrameInv, UnbornUnknown, TypeOK, Toplevels
  <2> QED
    BY <2>1, <2>3, <2>4 DEF FrameInv, IdsFresh, OneOwner
<1>3. ASSUME NEW t \in Toplevels, NEW l \in {"alive", "dead"}, life' = [life EXCEPT ![t] = l],
             UNCHANGED <<workspaces, nextWs, frame, pendingFrames>>
      PROVE  FrameInv'
  BY <1>3 DEF FrameInv, IdsFresh, OneOwner, PendingOnce, UnbornUnknown, TypeOK, Toplevels
<1>4. ASSUME pendingFrames /= <<>>, pendingFrames' = Tail(pendingFrames)
      PROVE  \A i \in DOMAIN pendingFrames' :
               /\ i + 1 \in DOMAIN pendingFrames /\ i + 1 /= 1
               /\ pendingFrames'[i] = pendingFrames[i + 1]
  BY <1>4 DEF TypeOK
<1>5. CASE KeepChildFrame
  <2>1. /\ \A i \in DOMAIN pendingFrames' :
             i + 1 \in DOMAIN pendingFrames /\ pendingFrames'[i] = pendingFrames[i + 1]
        /\ UNCHANGED <<workspaces, nextWs, frame, life>>
    BY <1>4, <1>5 DEF KeepChildFrame, wsVars, hostVars
  <2>2. DOMAIN pendingFrames' \subseteq Nat
    BY <1>5 DEF KeepChildFrame, TypeOK
  <2> QED
    BY <2>1, <2>2 DEF FrameInv, IdsFresh, OneOwner, PendingOnce, UnbornUnknown
<1>6. CASE CreateWorkspace
  <2> DEFINE e == Head(pendingFrames)
  <2>1. /\ nextWs \in WsIds
        /\ nextWs' = nextWs + 1
        /\ workspaces' = workspaces \cup {nextWs}
        /\ frame' = [frame EXCEPT ![nextWs] = e]
        /\ UNCHANGED life
        /\ pendingFrames /= <<>>
        /\ pendingFrames' = Tail(pendingFrames)
    BY <1>6 DEF CreateWorkspace, hostVars
  <2>2. /\ 1 \in DOMAIN pendingFrames
        /\ e = pendingFrames[1]
        /\ e \in Frames
        /\ DOMAIN pendingFrames' \subseteq Nat
    BY <2>1 DEF TypeOK
  <2>3. \A i \in DOMAIN pendingFrames' :
          i + 1 \in DOMAIN pendingFrames /\ i + 1 /= 1 /\ pendingFrames'[i] = pendingFrames[i + 1]
    BY <1>4, <2>1
  <2> HIDE DEF e
  <2>4. \A w \in WsIds : frame'[w] = IF w = nextWs THEN e ELSE frame[w]
    BY <2>1 DEF TypeOK
  <2>5. IdsFresh'
    BY <2>1, <2>4 DEF FrameInv, IdsFresh, TypeOK, WsIds
  <2>6. OneOwner'
    BY <2>2, <2>4 DEF FrameInv, OneOwner, PendingOnce
  <2>7. PendingOnce'
    BY <2>2, <2>3, <2>4 DEF FrameInv, PendingOnce
  <2>8. UnbornUnknown'
    BY <2>1, <2>2, <2>3, <2>4 DEF FrameInv, UnbornUnknown
  <2> QED
    BY <2>5, <2>6, <2>7, <2>8 DEF FrameInv
<1>7. ASSUME NEW w \in WsIds, RemoveWorkspace(w) PROVE FrameInv'
  BY <1>7, ForgetFrames DEF RemoveWorkspace, queueVars, hostVars
<1>8. CASE DetectDead
  <2>1. DeadWorkspaces \in SUBSET WsIds
    BY DEF DeadWorkspaces, TypeOK
  <2> QED
    BY <1>8, <2>1, ForgetFrames DEF DetectDead, queueVars, hostVars
<1>9. CASE UNCHANGED <<workspaces, nextWs, frame, life, pendingFrames>>
  BY <1>9 DEF FrameInv, IdsFresh, OneOwner, PendingOnce, UnbornUnknown
<1>10. ASSUME NEW c \in Clients, NewClient(c) PROVE FrameInv'
  BY <1>3, <1>10 DEF NewClient, Toplevels
<1>11. ASSUME NEW t \in Toplevels, Die(t) PROVE FrameInv'
  BY <1>3, <1>11 DEF Die, wsVars, queueVars
<1> QED
  BY <1>1, <1>2, <1>5, <1>6, <1>7, <1>8, <1>9, <1>10, <1>11
  DEF Next, Environment, Requests, Tick, vars, wsVars, appVars, queueVars, hostVars,
      RequestFrame, Commit, TimerElapses, Click, WakeUp, Redraw, Relayout, HostFocusLeave,
      HostFocusEnter, ActivateWorkspace, SetGeometry, HideApp, ShowApp, AddMirror,
      RemoveMirror, PromoteMirror, SetFocus, SetMigrationPolicy, StartTick, EndToplevels,
      DropDeadToplevel, PromoteDialog, RegisterApp, EndApps, EndActions, CleanupDeadApps,
      CleanupDeadDialogs, EndIpc, ForceCommit

\* The types and FrameInv hold throughout.
LEMMA FramesInvariant == Spec => [](TypeOK /\ FrameInv)
<1> QED
  BY InitType, TypeStep, InitFrames, FrameStep, PTL DEF Spec

\* No Emacs toplevel is the frame of two workspaces, however many frames are
\* created in one batch.
THEOREM FramesDistinctCorrect == Spec => []FramesDistinct
<1>1. TypeOK /\ FrameInv => FramesDistinct
  BY DEF FrameInv, OneOwner, FramesDistinct, TypeOK
<1> QED
  BY <1>1, FramesInvariant, PTL

----------------------------------------------------------------------------
(* Live frames stay mapped                                                 *)

\* What a step has to leave alone for FrameMapped to survive it.
LEMMA MappedKept ==
  ASSUME TypeOK, FrameMapped,
         workspaces' \subseteq workspaces,
         \A w \in workspaces' : frame'[w] = frame[w],
         \A w \in workspaces :
           frame[w] /= None /\ life'[frame[w]] = "alive" => life[frame[w]] = "alive",
         \A w \in workspaces' : \A e \in Frames :
           e \in space[w] /\ life'[e] = "alive" => e \in space'[w]
  PROVE  FrameMapped'
<1> SUFFICES ASSUME NEW w \in workspaces', HasLiveFrame(w)' PROVE frame'[w] \in space'[w]
  BY DEF FrameMapped
<1>1. /\ w \in workspaces
      /\ frame'[w] = frame[w]
      /\ frame[w] /= None
      /\ life'[frame[w]] = "alive"
  BY DEF HasLiveFrame, Alive
<1>2. frame[w] \in space[w]
  BY <1>1 DEF FrameMapped, HasLiveFrame, Alive
<1>3. frame[w] \in Frames
  BY <1>1 DEF TypeOK
<1> QED
  BY <1>1, <1>2, <1>3

\* Re-synchronising a Space for its apps leaves the Emacs toplevels in it.
LEMMA ResyncKeepsFrames ==
  ASSUME NEW sp \in [WsIds -> SUBSET Toplevels], NEW mg \in SUBSET Clients,
         NEW target \in WsIds, NEW w \in WsIds, NEW e \in Frames, e \in sp[w]
  PROVE  e \in Resync(sp, mg, target)[w]
<1>1. e \notin mg
  BY ConstantsAssumption
<1> QED
  BY <1>1 DEF Resync

\* No step unmaps a live frame from the Space of its own workspace.
LEMMA MappedStep == TypeOK /\ FrameInv /\ FrameMapped /\ [Next]_vars => FrameMapped'
<1> SUFFICES ASSUME TypeOK, FrameInv, FrameMapped, [Next]_vars PROVE FrameMapped'
  OBVIOUS
<1> USE ConstantsAssumption
<1> DEFINE Grows == \A w \in WsIds : \A e \in Frames : e \in space[w] => e \in space'[w]
<1>1. ASSUME NEW e \in Frames, ClaimMain(e) PROVE FrameMapped'
  <2>1. /\ frame' = [frame EXCEPT ![active] = e]
        /\ space' = [space EXCEPT ![active] = @ \cup {e}]
        /\ life' = [life EXCEPT ![e] = "alive"]
        /\ life[e] = "unborn"
        /\ UNCHANGED workspaces
        /\ active \in WsIds
    BY <1>1 DEF ClaimMain, TypeOK
  <2> SUFFICES ASSUME NEW w \in workspaces, HasLiveFrame(w)' PROVE frame'[w] \in space'[w]
    BY <2>1 DEF FrameMapped
  <2>2. CASE w = active
    BY <2>1, <2>2 DEF TypeOK
  <2>3. CASE w /= active
    <3>1. frame'[w] = frame[w] /\ space'[w] = space[w] /\ frame[w] /= None
      BY <2>1, <2>3 DEF TypeOK, HasLiveFrame
    <3>2. frame[w] \in Toplevels /\ frame[w] /= e
      BY <2>1, <3>1 DEF TypeOK, Toplevels, FrameInv, UnbornUnknown
    <3>3. HasLiveFrame(w)
      BY <2>1, <3>1, <3>2 DEF HasLiveFrame, Alive, TypeOK
    <3> QED
      BY <3>1, <3>3 DEF FrameMapped
  <2> QED
    BY <2>2, <2>3
<1>2. ASSUME NEW t \in Toplevels, life[t] = "unborn", life' = [life EXCEPT ![t] = "alive"],
             space' = [space EXCEPT ![active] = @ \cup {t}], UNCHANGED <<workspaces, frame>>
      PROVE  FrameMapped'
  <2>1. \A w \in workspaces :
          frame[w] /= None /\ life'[frame[w]] = "alive" => life[frame[w]] = "alive"
    BY <1>2 DEF FrameInv, UnbornUnknown, TypeOK, Toplevels
  <2>2. Grows
    BY <1>2 DEF TypeOK
  <2> QED
    BY <1>2, <2>1, <2>2, MappedKept DEF TypeOK
<1>3. ASSUME NEW t \in Toplevels, Die(t) PROVE FrameMapped'
  <2>1. /\ life' = [life EXCEPT ![t] = "dead"]
        /\ UNCHANGED <<workspaces, frame, space>>
    BY <1>3 DEF Die, wsVars
  <2>2. \A u \in Toplevels : life'[u] = "alive" => life[u] = "alive"
    BY <2>1 DEF TypeOK
  <2> QED
    BY <2>1, <2>2, MappedKept DEF TypeOK, Toplevels
<1>4. ASSUME UNCHANGED <<workspaces, frame, life>>, Grows PROVE FrameMapped'
  BY <1>4, MappedKept DEF TypeOK
<1>5. ASSUME NEW ids \in SUBSET WsIds, Forget(ids), UNCHANGED life,
             \A w \in WsIds \ ids : \A e \in Frames : e \in space[w] => e \in space'[w]
      PROVE  FrameMapped'
  <2>1. workspaces' = workspaces \ ids /\ \A w \in workspaces' : frame'[w] = frame[w]
    BY <1>5 DEF Forget, TypeOK
  <2> QED
    BY <1>5, <2>1, MappedKept DEF TypeOK
<1>6. ASSUME NEW c \in Clients, Commit(c) PROVE FrameMapped'
  BY <1>4, <1>6 DEF Commit, hostVars, TypeOK
<1>7. CASE Redraw
  <2>1. \A w \in workspaces : \A e \in Frames :
          e \in space[w] /\ life'[e] = "alive" => e \in space'[w]
    BY <1>7 DEF Redraw, Alive, hostVars, TypeOK
  <2> QED
    BY <1>7, <2>1, MappedKept DEF Redraw, hostVars, TypeOK
<1>8. CASE CreateWorkspace
  <2> DEFINE f == Head(pendingFrames)
             fr == [frame EXCEPT ![nextWs] = f]
             sp == [space EXCEPT ![active] = @ \ {f}, ![nextWs] = {f}]
  <2>1. /\ pendingFrames /= <<>>
        /\ nextWs \in WsIds
        /\ workspaces' = workspaces \cup {nextWs}
        /\ frame' = fr
        /\ space' = Resync(sp, managed, nextWs)
        /\ UNCHANGED life
    BY <1>8 DEF CreateWorkspace, SwitchTo, hostVars
  <2>2. /\ f \in Frames
        /\ \A w \in WsIds : frame[w] /= f
    BY <2>1 DEF TypeOK, FrameInv, PendingOnce
  <2>3. sp \in [WsIds -> SUBSET Toplevels]
    BY <2>1, <2>2 DEF TypeOK, Toplevels
  <2>4. \A w \in WsIds : \A e \in Frames : e \in sp[w] => e \in space'[w]
    BY <2>1, <2>3, ResyncKeepsFrames DEF TypeOK
  <2>5. ASSUME NEW w \in workspaces, w /= nextWs, HasLiveFrame(w)' PROVE frame'[w] \in space'[w]
    <3>1. frame'[w] = frame[w] /\ HasLiveFrame(w)
      BY <2>1, <2>5 DEF HasLiveFrame, Alive, TypeOK
    <3>2. frame[w] \in space[w] /\ frame[w] \in Frames /\ frame[w] /= f
      BY <2>2, <3>1 DEF FrameMapped, TypeOK, HasLiveFrame
    <3>3. frame[w] \in sp[w]
      BY <2>5, <3>2 DEF TypeOK
    <3> QED
      BY <2>4, <3>1, <3>2, <3>3 DEF TypeOK
  <2>6. frame'[nextWs] \in space'[nextWs]
    <3>1. frame'[nextWs] = f
      BY <2>1 DEF TypeOK
    <3>2. f \in sp[nextWs]
      BY <2>1 DEF TypeOK
    <3> QED
      BY <2>1, <2>2, <2>4, <3>1, <3>2
  <2> QED
    BY <2>1, <2>5, <2>6 DEF FrameMapped
<1>9. ASSUME NEW w \in WsIds, ActivateWorkspace(w) PROVE FrameMapped'
  <2>1. /\ space' = Resync(space, managed, w)
        /\ UNCHANGED <<workspaces, frame, life>>
    BY <1>9 DEF ActivateWorkspace, SwitchTo, hostVars
  <2>2. Grows
    BY <2>1, ResyncKeepsFrames DEF TypeOK
  <2> QED
    BY <1>4, <2>1, <2>2
<1>10. ASSUME NEW w \in WsIds, RemoveWorkspace(w) PROVE FrameMapped'
  BY <1>5, <1>10 DEF RemoveWorkspace, SpaceWithout, hostVars
<1>11. CASE DetectDead
  <2> DEFINE gone == DeadWorkspaces
             sp == SpaceWithout(gone)
  <2>1. gone \in SUBSET WsIds /\ Forget(gone) /\ UNCHANGED life
    BY <1>11 DEF DetectDead, DeadWorkspaces, hostVars, TypeOK
  <2>2. /\ sp \in [WsIds -> SUBSET Toplevels]
        /\ \A w \in WsIds \ gone : sp[w] = space[w]
    BY DEF SpaceWithout, TypeOK
  <2>3. \/ space' = sp
        \/ \E w \in WsIds : space' = Resync(sp, managed \ AppsOf(gone), w)
    BY <1>11 DEF DetectDead, Fallbacks, SwitchTo, TypeOK
  <2> HIDE DEF gone, sp
  <2>4. \A w \in WsIds : \A e \in Frames : e \in sp[w] => e \in space'[w]
    <3>1. managed \ AppsOf(gone) \in SUBSET Clients
      BY DEF TypeOK
    <3> QED
      BY <2>2, <2>3, <3>1, ResyncKeepsFrames
  <2> QED
    BY <1>5, <2>1, <2>2, <2>4
<1>12. CASE CleanupDeadApps
  <2>1. DeadApps \subseteq Clients
    BY DEF DeadApps, TypeOK
  <2>2. Grows
    BY <1>12, <2>1 DEF CleanupDeadApps, TypeOK
  <2> QED
    BY <1>4, <1>12, <2>2 DEF CleanupDeadApps, hostVars
<1>13. CASE CleanupDeadDialogs
  <2>1. \A w \in workspaces : \A e \in Frames :
          e \in space[w] /\ life'[e] = "alive" => e \in space'[w]
    BY <1>13 DEF CleanupDeadDialogs, Alive, hostVars, TypeOK
  <2> QED
    BY <1>13, <2>1, MappedKept DEF CleanupDeadDialogs, hostVars, TypeOK
<1>14. ASSUME NEW c \in Clients,
              \/ SpaceMigrated(c) = space
              \/ SpaceMigrated(c) = [space EXCEPT ![app[c].ws] = @ \ {c}],
              RequestFrame,
              space' \in {space, SpaceMigrated(c), [SpaceMigrated(c) EXCEPT ![active] = @ \cup {c}]}
       PROVE  FrameMapped'
  <2>1. c \notin Frames /\ space \in [WsIds -> SUBSET Toplevels]
    BY <1>14 DEF TypeOK
  <2>3. \A w \in WsIds : space[w] \ {c} \subseteq SpaceMigrated(c)[w]
    BY <1>14, <2>1
  <2>4. SpaceMigrated(c) \in [WsIds -> SUBSET Toplevels]
    BY SpaceUpdates
  <2>2. Grows
    BY <1>14, <2>1, <2>3, <2>4
  <2> QED
    BY <1>4, <1>14, <2>2 DEF RequestFrame, hostVars
<1>15. ASSUME NEW c \in Clients, SetGeometry(c) \/ ShowApp(c) PROVE FrameMapped'
  BY <1>14, <1>15 DEF SetGeometry, ShowApp, SpaceMigrated
<1>16. ASSUME NEW c \in Clients, HideApp(c) PROVE FrameMapped'
  <2>1. Grows
    BY <1>16 DEF HideApp, TypeOK
  <2> QED
    BY <1>4, <1>16, <2>1 DEF HideApp, RequestFrame, hostVars
<1>17. ASSUME NEW c \in Clients, PromoteMirror(c) PROVE FrameMapped'
  <2>1. Grows
    BY <1>17 DEF PromoteMirror, TypeOK
  <2> QED
    BY <1>4, <1>17, <2>1 DEF PromoteMirror, RequestFrame, hostVars
<1>18. CASE ForceCommit
  BY <1>4, <1>18 DEF ForceCommit, hostVars, TypeOK
<1>19. CASE UNCHANGED <<workspaces, frame, life, space>>
  BY <1>4, <1>19
<1>20. ASSUME NEW e \in Frames, NewFrame(e) PROVE FrameMapped'
  BY <1>2, <1>20 DEF NewFrame, Toplevels
<1>21. ASSUME NEW c \in Clients, NewClient(c) PROVE FrameMapped'
  BY <1>2, <1>21 DEF NewClient, Toplevels
<1> QED
  BY <1>1, <1>3, <1>6, <1>7, <1>8, <1>9, <1>10, <1>11, <1>12, <1>13, <1>15, <1>16, <1>17,
     <1>18, <1>19, <1>20, <1>21
  DEF Next, Environment, Requests, Tick, vars, wsVars, hostVars, RequestFrame, TimerElapses,
      Click, WakeUp, Relayout, HostFocusLeave, HostFocusEnter, AddMirror, RemoveMirror, SetFocus,
      SetMigrationPolicy, StartTick, KeepChildFrame, EndToplevels, DropDeadToplevel,
      PromoteDialog, RegisterApp, EndApps, EndActions, EndIpc

\* A live Emacs frame is mapped in the Space of its own workspace, for every
\* number of frames, apps and workspaces.
THEOREM FrameMappedCorrect == Spec => []FrameMapped
<1>1. Init => FrameMapped
  BY ConstantsAssumption DEF Init, FrameMapped, HasLiveFrame, WsIds
<1> QED
  BY <1>1, FramesInvariant, MappedStep, PTL DEF Spec

----------------------------------------------------------------------------
(* An Emacs toplevel with the keyboard is mapped where the user looks      *)

\* What a step that switches no workspace may do to the focus: give it to an
\* app, to what is mapped, or to one of those that had it.
LEMMA FocusKept ==
  ASSUME FocusAtHome,
         active' = active,
         \A e \in Frames : life'[e] = "alive" => life[e] = "alive" \/ e \in space'[active],
         \A e \in Frames : e \in space[active] /\ life'[e] = "alive" => e \in space'[active],
         {focus', saved', lastApp'} \subseteq
           {focus, saved, lastApp, None, NotSaved} \cup Clients \cup space'[active]
  PROVE  FocusAtHome'
<1> SUFFICES ASSUME NEW e \in Frames, e \in {focus', saved', lastApp'}, life'[e] = "alive"
             PROVE  e \in space'[active]
  BY DEF FocusAtHome, Alive
<1>1. e \in {focus, saved, lastApp} \cup space'[active]
  BY ConstantsAssumption
<1> QED
  BY <1>1 DEF FocusAtHome, Alive

\* A switch leaves the keyboard with a frame that is mapped in the target's
\* Space, or with nobody, and forgets where it was to return to.
LEMMA FocusSwitched ==
  ASSUME NEW target \in WsIds, NEW mg, NEW sp, NEW fr, SwitchTo(target, mg, fr, sp)
  PROVE  FocusAtHome'
<1>1. /\ active' = target
      /\ focus' = None \/ focus' \in space'[target]
      /\ saved' = NotSaved
      /\ lastApp' = None
  BY DEF SwitchTo, ResetFocusState, EmacsTarget
<1> QED
  BY <1>1, ConstantsAssumption DEF FocusAtHome

\* No step leaves focus, or a slot it returns from, on an unmapped frame.
LEMMA FocusStep == TypeOK /\ FocusAtHome /\ [Next]_vars => FocusAtHome'
<1> SUFFICES ASSUME TypeOK, FocusAtHome, [Next]_vars PROVE FocusAtHome'
  OBVIOUS
<1> DEFINE Slots == {focus', saved', lastApp'}
           Known == {focus, saved, lastApp, None, NotSaved} \cup Clients
           Stays == \A e \in Frames : e \in space[active] => e \in space'[active]
<1>1. ASSUME UNCHANGED <<active, life>>, Stays, Slots \subseteq Known \cup space'[active]
      PROVE  FocusAtHome'
  BY <1>1, FocusKept
<1>2. ASSUME UNCHANGED <<active, life, space>>, Slots \subseteq Known \cup space[active]
      PROVE  FocusAtHome'
  BY <1>1, <1>2
<1>3. \A sp : EmacsTarget(active, frame, sp) \in sp[active] \cup {None}
  BY DEF EmacsTarget
<1>4. ASSUME NEW t \in Toplevels, life' = [life EXCEPT ![t] = "alive"],
             space' = [space EXCEPT ![active] = @ \cup {t}], UNCHANGED active,
             Slots \subseteq Known \cup {t}
      PROVE  FocusAtHome'
  <2>1. \A e \in Frames : life'[e] = "alive" => life[e] = "alive" \/ e \in space'[active]
    BY <1>4 DEF TypeOK, Toplevels
  <2>2. space'[active] = space[active] \cup {t}
    BY <1>4 DEF TypeOK
  <2> QED
    BY <1>4, <2>1, <2>2, FocusKept
<1>5. ASSUME NEW e \in Frames, ClaimMain(e) \/ NewFrame(e) PROVE FocusAtHome'
  BY <1>4, <1>5 DEF ClaimMain, NewFrame, focusVars, Toplevels
<1>6. ASSUME NEW c \in Clients, NewClient(c) PROVE FocusAtHome'
  BY <1>4, <1>6 DEF NewClient, focusVars, Toplevels
<1>7. ASSUME NEW t \in Toplevels, Die(t) PROVE FocusAtHome'
  <2>1. /\ life' = [life EXCEPT ![t] = "dead"]
        /\ Slots \subseteq Known
        /\ UNCHANGED <<active, space>>
    BY <1>7 DEF Die, FocusAfterDeath, wsVars
  <2>2. \A e \in Frames : life'[e] = "alive" => life[e] = "alive"
    BY <2>1 DEF TypeOK, Toplevels
  <2> QED
    BY <2>1, <2>2, FocusKept
<1>8. ASSUME NEW c \in Clients, Commit(c) PROVE FocusAtHome'
  BY <1>1, <1>8 DEF Commit, focusVars, hostVars, TypeOK
<1>9. ASSUME NEW t \in Toplevels \cup {None}, Click(t) PROVE FocusAtHome'
  <2>1. focus' \in space[active] \cup {None}
    BY <1>3, <1>9 DEF Click
  <2> QED
    BY <1>2, <1>9, <2>1 DEF Click, wsVars, hostVars
<1>10. CASE WakeUp
  BY <1>2, <1>3, <1>10 DEF WakeUp, wsVars, hostVars
<1>11. CASE HostFocusLeave \/ HostFocusEnter
  BY <1>2, <1>11 DEF HostFocusLeave, HostFocusEnter, wsVars
<1>12. CASE Redraw
  <2>1. \A e \in Frames : e \in space[active] /\ life'[e] = "alive" => e \in space'[active]
    BY <1>12 DEF Redraw, Alive, hostVars, TypeOK
  <2> QED
    BY <1>12, <2>1, FocusKept DEF Redraw, hostVars, focusVars
<1>13. CASE CreateWorkspace
  BY <1>13, FocusSwitched DEF CreateWorkspace
<1>14. CASE PromoteDialog \/ RegisterApp
  <2>1. Head(pendingApps) \in Clients
    BY <1>14 DEF PromoteDialog, RegisterApp, TypeOK
  <2> QED
    BY <1>2, <1>14, <2>1 DEF PromoteDialog, RegisterApp, wsVars, hostVars
<1>15. ASSUME NEW w \in WsIds, ActivateWorkspace(w) PROVE FocusAtHome'
  BY <1>15, FocusSwitched DEF ActivateWorkspace
<1>16. ASSUME NEW ids \in SUBSET WsIds, active \notin ids, space' = SpaceWithout(ids),
              UNCHANGED <<active, life, focusVars>>
       PROVE  FocusAtHome'
  BY <1>1, <1>16 DEF SpaceWithout, focusVars, TypeOK
<1>17. ASSUME NEW w \in WsIds, RemoveWorkspace(w) PROVE FocusAtHome'
  BY <1>16, <1>17 DEF RemoveWorkspace, hostVars
<1>18. CASE DetectDead
  <2> DEFINE gone == DeadWorkspaces
  <2>1. gone \in SUBSET WsIds /\ active \notin gone
    BY DEF DeadWorkspaces, TypeOK
  <2>2. \/ \E w \in Fallbacks(gone) :
             SwitchTo(w, managed \ AppsOf(gone), frame, SpaceWithout(gone))
        \/ space' = SpaceWithout(gone) /\ UNCHANGED <<active, life, focusVars>>
    BY <1>18 DEF DetectDead, hostVars
  <2>3. Fallbacks(gone) \subseteq WsIds
    BY DEF Fallbacks, TypeOK
  <2> HIDE DEF gone
  <2> QED
    BY <1>16, <2>1, <2>2, <2>3, FocusSwitched
<1>19. CASE CleanupDeadApps
  <2>1. DeadApps \cap Frames = {}
    BY ConstantsAssumption DEF DeadApps, TypeOK
  <2>2. focus' \in {focus, None} \cup space'[active]
    BY <1>3, <1>19 DEF CleanupDeadApps
  <2>3. Stays
    BY <1>19, <2>1 DEF CleanupDeadApps, TypeOK
  <2> QED
    BY <1>1, <1>19, <2>2, <2>3 DEF CleanupDeadApps, hostVars
<1>20. CASE CleanupDeadDialogs
  <2>1. focus' \in {focus, None} \cup space'[active]
    BY <1>3, <1>20 DEF CleanupDeadDialogs
  <2>2. \A e \in Frames : e \in space[active] /\ life'[e] = "alive" => e \in space'[active]
    BY <1>20 DEF CleanupDeadDialogs, Alive, hostVars, TypeOK
  <2> QED
    BY <1>20, <2>1, <2>2, FocusKept DEF CleanupDeadDialogs, hostVars
<1>21. ASSUME NEW c \in Clients \cup {None}, SetFocus(c) PROVE FocusAtHome'
  <2>1. focus' \in Clients \cup {None} \cup space[active]
    BY <1>3, <1>21 DEF SetFocus, TypeOK
  <2> QED
    BY <1>2, <1>21, <2>1 DEF SetFocus, wsVars, hostVars
<1>22. ASSUME NEW c \in Clients, RequestFrame,
              space' \in {space, SpaceMigrated(c), [SpaceMigrated(c) EXCEPT ![active] = @ \cup {c}]}
       PROVE  FocusAtHome'
  <2>1. c \notin Frames /\ space \in [WsIds -> SUBSET Toplevels] /\ active \in WsIds
    BY ConstantsAssumption DEF TypeOK
  <2>3. space[active] \ {c} \subseteq SpaceMigrated(c)[active]
    BY <2>1 DEF SpaceMigrated
  <2>4. SpaceMigrated(c) \in [WsIds -> SUBSET Toplevels]
    BY SpaceUpdates
  <2>2. Stays
    BY <1>22, <2>1, <2>3, <2>4
  <2> QED
    BY <1>1, <1>22, <2>2 DEF RequestFrame, focusVars, hostVars
<1>23. ASSUME NEW c \in Clients, SetGeometry(c) \/ ShowApp(c) PROVE FocusAtHome'
  BY <1>22, <1>23 DEF SetGeometry, ShowApp
<1>24. ASSUME NEW c \in Clients, HideApp(c) \/ PromoteMirror(c) PROVE FocusAtHome'
  <2>1. c \notin Frames /\ space \in [WsIds -> SUBSET Toplevels] /\ active \in WsIds
    BY ConstantsAssumption DEF TypeOK
  <2>2. Stays
    BY <1>24, <2>1 DEF HideApp, PromoteMirror
  <2> QED
    BY <1>1, <1>24, <2>2 DEF HideApp, PromoteMirror, RequestFrame, focusVars, hostVars
<1>25. CASE ForceCommit
  <2>1. Stays
    BY <1>25 DEF ForceCommit, TypeOK
  <2> QED
    BY <1>1, <1>25, <2>1 DEF ForceCommit, focusVars, hostVars
<1>26. CASE UNCHANGED <<active, life, space, focusVars>>
  BY <1>2, <1>26 DEF focusVars
<1> QED
  BY <1>5, <1>6, <1>7, <1>8, <1>9, <1>10, <1>11, <1>12, <1>13, <1>14, <1>15, <1>17, <1>18,
     <1>19, <1>20, <1>21, <1>23, <1>24, <1>25, <1>26
  DEF Next, Environment, Requests, Tick, vars, wsVars, hostVars, RequestFrame, TimerElapses,
      Relayout, AddMirror, RemoveMirror, SetMigrationPolicy, StartTick, KeepChildFrame,
      EndToplevels, DropDeadToplevel, EndApps, EndActions, EndIpc

\* The keyboard is on no live Emacs toplevel that is unmapped, and neither
\* place that gives it back later refers to one, whatever batches of frames,
\* resizes and clicks come between the switches.
THEOREM FocusCorrect == Spec => []FocusAtHome
<1>1. Init => FocusAtHome
  BY ConstantsAssumption DEF Init, FocusAtHome
<1> QED
  BY <1>1, TypeCorrect, FocusStep, PTL DEF Spec

----------------------------------------------------------------------------
(* The end                                                                 *)

\* After it found the last frame dead the compositor only finishes the tick.
StopInv ==
  stopping = "lastFrameDied" =>
    /\ phase \in {"reapApps", "reapDialogs", "ipc", "timeout", "stopped"}
    /\ workspaces = {active}
    /\ ~HasLiveFrame(active)

\* No step stops the loop while a frame lives, and none revives a frame after it.
LEMMA StopStep == TypeOK /\ StopInv /\ [Next]_vars => StopInv'
<1> SUFFICES ASSUME TypeOK, StopInv, [Next]_vars, stopping' = "lastFrameDied"
             PROVE  /\ phase' \in {"reapApps", "reapDialogs", "ipc", "timeout", "stopped"}
                    /\ workspaces' = {active'}
                    /\ ~HasLiveFrame(active)'
  BY DEF StopInv
<1> DEFINE Ended == /\ phase' \in {"reapApps", "reapDialogs", "ipc", "timeout", "stopped"}
                    /\ workspaces' = {active'}
                    /\ ~HasLiveFrame(active)'
<1>1. CASE DetectDead
  <2>1. phase = "dead" /\ phase' = "reapApps"
    BY <1>1 DEF DetectDead
  <2>2. stopping /= "lastFrameDied"
    BY <2>1 DEF StopInv
  <2>3. /\ MainDied
        /\ Fallbacks(DeadWorkspaces) = {}
        /\ workspaces' = workspaces \ DeadWorkspaces
        /\ frame' = [w \in WsIds |-> IF w \in DeadWorkspaces THEN None ELSE frame[w]]
        /\ UNCHANGED <<active, life>>
    BY <1>1, <2>2 DEF DetectDead, Forget, hostVars
  <2>4. workspaces' = {active}
    BY <2>3 DEF Fallbacks, DeadWorkspaces, TypeOK
  <2>5. ~HasLiveFrame(active)'
    <3>1. frame'[active] = frame[active]
      BY <2>3 DEF TypeOK, DeadWorkspaces
    <3> QED
      BY <2>3, <3>1 DEF MainDied, HasLiveFrame, Alive
  <2> QED
    BY <2>1, <2>3, <2>4, <2>5
<1>2. CASE ~DetectDead /\ Next
  <2>1. stopping = "lastFrameDied"
    BY <1>2
    DEF Next, Environment, Requests, Tick, RequestFrame, ClaimMain, NewFrame, NewClient,
        Commit, TimerElapses, Die, Click, WakeUp, Redraw, Relayout, HostFocusLeave, HostFocusEnter,
        ActivateWorkspace, RemoveWorkspace, SetGeometry, HideApp, ShowApp, AddMirror,
        RemoveMirror, PromoteMirror, SetFocus, SetMigrationPolicy, StartTick, KeepChildFrame,
        CreateWorkspace, EndToplevels, DropDeadToplevel, PromoteDialog, RegisterApp, EndApps,
        EndActions, CleanupDeadApps, CleanupDeadDialogs, EndIpc, ForceCommit
  <2>2. /\ phase \in {"reapApps", "reapDialogs", "ipc", "timeout", "stopped"}
        /\ workspaces = {active}
        /\ ~HasLiveFrame(active)
    BY <2>1 DEF StopInv
  <2>3. ~Environment
    BY <2>2
    DEF Environment, ClaimMain, NewFrame, NewClient, Commit, TimerElapses, Die, Click, WakeUp,
        Redraw, Relayout, HostFocusLeave, HostFocusEnter
  <2>4. CASE Requests
    <3>1. \A w \in WsIds : ~ActivateWorkspace(w) /\ ~RemoveWorkspace(w)
      BY <2>2 DEF ActivateWorkspace, RemoveWorkspace
    <3>2. UNCHANGED <<phase, workspaces, active, frame, life>>
      BY <2>4, <3>1
      DEF Requests, SetGeometry, HideApp, ShowApp, AddMirror, RemoveMirror, PromoteMirror,
          RequestFrame, SetFocus, SetMigrationPolicy, wsVars, hostVars
    <3> QED
      BY <2>2, <3>2 DEF HasLiveFrame, Alive
  <2>5. CASE Tick
    <3>1. CleanupDeadApps \/ CleanupDeadDialogs \/ EndIpc \/ ForceCommit
      BY <1>2, <2>2, <2>5
      DEF Tick, StartTick, KeepChildFrame, CreateWorkspace, EndToplevels, DropDeadToplevel,
          PromoteDialog, RegisterApp, EndApps, EndActions
    <3>2. /\ phase' \in {"reapDialogs", "ipc", "timeout", "stopped"}
          /\ UNCHANGED <<workspaces, active, frame, life>>
      BY <2>1, <3>1
      DEF CleanupDeadApps, CleanupDeadDialogs, EndIpc, ForceCommit, wsVars, hostVars
    <3> QED
      BY <2>2, <3>2 DEF HasLiveFrame, Alive
  <2> QED
    BY <1>2, <2>3, <2>4, <2>5 DEF Next
<1>3. CASE UNCHANGED vars
  BY <1>3 DEF vars, wsVars, hostVars, StopInv, HasLiveFrame, Alive
<1> QED
  BY <1>1, <1>2, <1>3

\* The compositor ends for want of frames only when every frame is dead.
THEOREM StopCorrect == Spec => []StopOnlyWhenAllDead
<1>1. Init => StopInv
  BY DEF Init, StopInv
<1>2. TypeOK /\ StopInv => StopOnlyWhenAllDead
  BY DEF StopInv, StopOnlyWhenAllDead
<1> QED
  BY <1>1, <1>2, TypeCorrect, StopStep, PTL DEF Spec

----------------------------------------------------------------------------
(* The affinity pass                                                       *)

\* After SwitchTo under by_workspace_affinity the Space holds the target's apps only.
LEMMA SyncedSwitch ==
  ASSUME TypeOK, NEW sp \in [WsIds -> SUBSET Toplevels], NEW mg \in SUBSET Clients,
         NEW target \in WsIds, NEW fr, SwitchTo(target, mg, fr, sp),
         policy = ByWorkspaceAffinity, managed' = mg, \A c \in mg : app'[c] = app[c]
  PROVE  \A c \in managed' : c \in space'[active'] <=> app'[c].ws = active'
<1>1. space'[target] = (sp[target] \ mg) \cup {c \in mg : app[c].ws = target}
  BY DEF SwitchTo, Resync
<1> QED
  BY <1>1 DEF SwitchTo

\* Every switch under by_workspace_affinity leaves mapped in the new active
\* Space exactly the apps that belong to it.
THEOREM AffinityCorrect == Spec => AffinityAfterSwitch
<1> DEFINE Synced == active' /= active /\ policy = ByWorkspaceAffinity =>
                       \A c \in managed' : c \in space'[active'] <=> app'[c].ws = active'
<1>1. TypeOK /\ [Next]_vars => [Synced]_vars
  <2> SUFFICES ASSUME TypeOK, Next, active' /= active, policy = ByWorkspaceAffinity
               PROVE  \A c \in managed' : c \in space'[active'] <=> app'[c].ws = active'
    OBVIOUS
  <2>1. CASE CreateWorkspace
    <3> DEFINE f == Head(pendingFrames)
               fr == [frame EXCEPT ![nextWs] = f]
               sp == [space EXCEPT ![active] = @ \ {f}, ![nextWs] = {f}]
    <3>1. /\ nextWs \in WsIds
          /\ SwitchTo(nextWs, managed, fr, sp)
          /\ UNCHANGED <<managed, app>>
          /\ f \in Frames
      BY <2>1 DEF CreateWorkspace, appVars, TypeOK
    <3>2. sp \in [WsIds -> SUBSET Toplevels]
      BY <3>1 DEF TypeOK, Toplevels
    <3> HIDE DEF fr, sp
    <3> QED
      BY <3>1, <3>2, SyncedSwitch DEF TypeOK
  <2>2. ASSUME NEW w \in WsIds, ActivateWorkspace(w)
        PROVE  \A c \in managed' : c \in space'[active'] <=> app'[c].ws = active'
    BY <2>2, SyncedSwitch DEF ActivateWorkspace, appVars, TypeOK
  <2>3. CASE DetectDead
    <3> DEFINE gone == DeadWorkspaces
               mg == managed \ AppsOf(gone)
               sp == SpaceWithout(gone)
    <3>1. PICK w \in WsIds : SwitchTo(w, mg, frame, sp)
      BY <2>3 DEF DetectDead, Fallbacks, TypeOK
    <3>2. sp \in [WsIds -> SUBSET Toplevels]
      BY DEF SpaceWithout, TypeOK
    <3>3. managed' = mg /\ \A c \in mg : app'[c] = app[c]
      BY <2>3 DEF DetectDead, Forget, TypeOK
    <3>4. mg \in SUBSET Clients
      BY DEF TypeOK
    <3> HIDE DEF mg, sp
    <3> QED
      BY <3>1, <3>2, <3>3, <3>4, SyncedSwitch
  <2>4. CASE UNCHANGED active
    BY <2>4
  <2> QED
    BY <2>1, <2>2, <2>3, <2>4
    DEF Next, Environment, Requests, Tick, wsVars, RequestFrame, ClaimMain, NewFrame,
        NewClient, Commit, TimerElapses, Die, Click, WakeUp, Redraw, Relayout, HostFocusLeave,
        HostFocusEnter, RemoveWorkspace, SetGeometry, HideApp, ShowApp, AddMirror,
        RemoveMirror, PromoteMirror, SetFocus, SetMigrationPolicy, StartTick, KeepChildFrame,
        EndToplevels, DropDeadToplevel, PromoteDialog, RegisterApp, EndApps, EndActions,
        CleanupDeadApps, CleanupDeadDialogs, EndIpc, ForceCommit
<1> QED
  BY <1>1, TypeCorrect, PTL DEF Spec, AffinityAfterSwitch

----------------------------------------------------------------------------
(* Visible apps stay mapped                                                *)

\* The app c must be mapped in the active Space.
Shown(c) ==
  Alive(c) /\ app[c].ws = active /\ app[c].visible /\ app[c].placed /\ app[c].pend = "none"

\* What a step that switches no workspace may do to the apps.
LEMMA ShownKept ==
  ASSUME TypeOK, VisibleAppsShown,
         active' = active,
         NEW D \in SUBSET Clients,
         \A c \in managed' \ D :
           c \in managed /\ app'[c] = app[c] /\ (life'[c] = "alive" => life[c] = "alive"),
         \A c \in managed' \ D : c \in space[active] /\ life'[c] = "alive" => c \in space'[active],
         \A c \in D : c \in managed' /\ Shown(c)' => c \in space'[active]
  PROVE  VisibleAppsShown'
<1> SUFFICES ASSUME NEW c \in managed', Shown(c)' PROVE c \in space'[active']
  BY DEF VisibleAppsShown, Shown
<1>1. CASE c \in D
  BY <1>1
<1>2. CASE c \notin D
  <2>1. c \in managed /\ app'[c] = app[c] /\ life'[c] = "alive" /\ life[c] = "alive"
    BY <1>2 DEF Shown, Alive
  <2>2. Shown(c)
    BY <2>1 DEF Shown, Alive
  <2>3. c \in space[active]
    BY <2>1, <2>2 DEF VisibleAppsShown, Shown
  <2> QED
    BY <1>2, <2>1, <2>3
<1> QED
  BY <1>1, <1>2

\* A step that touches one app keeps the others shown.
LEMMA OthersShownKept ==
  ASSUME TypeOK, VisibleAppsShown, UNCHANGED <<active, life>>, NEW c \in Clients,
         managed' \subseteq managed \cup {c},
         \A d \in Clients \ {c} : app'[d] = app[d],
         \A d \in Clients \ {c} : d \in space[active] => d \in space'[active],
         Shown(c)' => c \in space'[active]
  PROVE  VisibleAppsShown'
<1>1. managed' \ {c} \subseteq managed /\ managed \subseteq Clients
  BY DEF TypeOK
<1>2. {c} \in SUBSET Clients /\ \A d \in {c} : Shown(d)' => d \in space'[active]
  OBVIOUS
<1>3. \A d \in managed' \ {c} :
        d \in managed /\ app'[d] = app[d] /\ (life'[d] = "alive" => life[d] = "alive")
  BY <1>1
<1>4. \A d \in managed' \ {c} : d \in space[active] /\ life'[d] = "alive" => d \in space'[active]
  BY <1>1
<1> QED
  BY <1>2, <1>3, <1>4, ShownKept

\* A switch shows every app of the new active workspace.
LEMMA ShownSwitched ==
  ASSUME TypeOK, NEW sp \in [WsIds -> SUBSET Toplevels], NEW mg \in SUBSET Clients,
         NEW target \in WsIds, NEW fr, SwitchTo(target, mg, fr, sp),
         policy = ByWorkspaceAffinity, managed' = mg, \A c \in mg : app'[c] = app[c]
  PROVE  VisibleAppsShown'
<1>1. \A c \in managed' : app'[c].ws = active' => c \in space'[active']
  BY SyncedSwitch
<1> QED
  BY <1>1 DEF VisibleAppsShown

\* Under by_workspace_affinity no step loses a visible app of the active workspace.
LEMMA ShownStep ==
  TypeOK /\ VisibleAppsShown /\ policy = ByWorkspaceAffinity /\ [Next]_vars => VisibleAppsShown'
<1> SUFFICES ASSUME TypeOK, VisibleAppsShown, policy = ByWorkspaceAffinity, [Next]_vars
             PROVE  VisibleAppsShown'
  OBVIOUS
<1> USE ConstantsAssumption
<1> DEFINE Grows == \A c \in Clients : c \in space[active] => c \in space'[active]
<1>0. /\ active \in WsIds
      /\ space \in [WsIds -> SUBSET Toplevels]
      /\ managed \subseteq Clients
      /\ app \in [Clients -> App]
  BY DEF TypeOK
<1>1. ASSUME UNCHANGED <<active, managed, app>>, Grows,
             \A c \in managed : life'[c] = "alive" => life[c] = "alive"
      PROVE  VisibleAppsShown'
  BY <1>0, <1>1, ShownKept
<1>2. ASSUME UNCHANGED <<active, managed, app, life>>,
             \A c \in Clients : c \in space[active] /\ life[c] = "alive" => c \in space'[active]
      PROVE  VisibleAppsShown'
  BY <1>0, <1>2, ShownKept
<1>3. ASSUME NEW e \in Frames, ClaimMain(e) \/ NewFrame(e) PROVE VisibleAppsShown'
  <2>1. /\ life' = [life EXCEPT ![e] = "alive"]
        /\ space' = [space EXCEPT ![active] = @ \cup {e}]
        /\ UNCHANGED <<active, managed, app>>
    BY <1>3 DEF ClaimMain, NewFrame, appVars
  <2>2. \A c \in managed : life'[c] = life[c]
    BY <2>1 DEF TypeOK, Toplevels
  <2>3. Grows
    BY <1>0, <2>1
  <2> QED
    BY <1>1, <2>1, <2>2, <2>3
<1>4. ASSUME NEW c \in Clients, NewClient(c) PROVE VisibleAppsShown'
  <2>1. /\ life[c] = "unborn"
        /\ life' = [life EXCEPT ![c] = "alive"]
        /\ space' = [space EXCEPT ![active] = @ \cup {c}]
        /\ UNCHANGED <<active, managed, app>>
    BY <1>4 DEF NewClient, appVars
  <2>2. c \in space'[active]
    BY <1>0, <2>1
  <2>3. \A d \in Clients \ {c} : life'[d] = life[d]
    BY <2>1 DEF TypeOK, Toplevels
  <2>4. Grows
    BY <1>0, <2>1
  <2> QED
    BY <1>0, <2>1, <2>2, <2>3, <2>4, ShownKept
<1>5. ASSUME NEW c \in Clients, Commit(c) PROVE VisibleAppsShown'
  <2>1. /\ \A d \in Clients \ {c} : app'[d] = app[d]
        /\ space' = [space EXCEPT ![active] = @ \cup {c}]
        /\ UNCHANGED <<active, managed, life>>
    BY <1>0, <1>5 DEF Commit, hostVars
  <2>2. c \in space'[active] /\ Grows
    BY <1>0, <2>1
  <2> QED
    BY <1>0, <2>1, <2>2, ShownKept
<1>6. ASSUME NEW c \in Clients, TimerElapses(c) PROVE VisibleAppsShown'
  <2>1. /\ \A d \in Clients \ {c} : app'[d] = app[d]
        /\ app'[c].pend = "due"
        /\ UNCHANGED <<active, managed, life, space>>
    BY <1>0, <1>6 DEF TimerElapses, wsVars, hostVars, App
  <2>2. ~Shown(c)'
    BY <2>1 DEF Shown
  <2> QED
    BY <1>0, <2>1, <2>2, OthersShownKept
<1>7. ASSUME NEW t \in Toplevels, Die(t) PROVE VisibleAppsShown'
  <2>1. /\ life' = [life EXCEPT ![t] = "dead"]
        /\ UNCHANGED <<active, managed, app, space>>
    BY <1>7 DEF Die, wsVars, appVars
  <2>2. \A c \in managed : life'[c] = "alive" => life[c] = "alive"
    BY <1>0, <2>1 DEF TypeOK, Toplevels
  <2> QED
    BY <1>1, <2>1, <2>2
<1>8. CASE Redraw
  BY <1>0, <1>2, <1>8 DEF Redraw, Alive, appVars, hostVars
<1>9. CASE CreateWorkspace
  <2> DEFINE f == Head(pendingFrames)
             fr == [frame EXCEPT ![nextWs] = f]
             sp == [space EXCEPT ![active] = @ \ {f}, ![nextWs] = {f}]
  <2>1. /\ nextWs \in WsIds
        /\ SwitchTo(nextWs, managed, fr, sp)
        /\ UNCHANGED <<managed, app>>
        /\ f \in Frames
    BY <1>9 DEF CreateWorkspace, appVars, TypeOK
  <2>2. sp \in [WsIds -> SUBSET Toplevels]
    BY <2>1 DEF TypeOK, Toplevels
  <2> HIDE DEF fr, sp
  <2> QED
    BY <2>1, <2>2, ShownSwitched DEF TypeOK
<1>10. CASE RegisterApp
  <2>0. PICK c \in Clients : c = Head(pendingApps)
    BY <1>10 DEF RegisterApp, TypeOK
  <2>1. /\ c \in Clients
        /\ \A d \in Clients \ {c} : app'[d] = app[d]
        /\ managed' = managed \cup {c}
        /\ ~app'[c].visible
        /\ UNCHANGED <<active, life, space>>
    BY <1>0, <1>10, <2>0 DEF RegisterApp, wsVars, hostVars, NewApp
  <2>2. ~Shown(c)'
    BY <2>1 DEF Shown
  <2> QED
    BY <1>0, <2>1, <2>2, OthersShownKept
<1>11. ASSUME NEW w \in WsIds, ActivateWorkspace(w) PROVE VisibleAppsShown'
  BY <1>0, <1>11, ShownSwitched DEF ActivateWorkspace, appVars
<1>12. ASSUME NEW ids \in SUBSET WsIds, Forget(ids)
       PROVE  managed' \subseteq managed /\ \A c \in managed' : app'[c] = app[c]
  BY <1>0, <1>12 DEF Forget
<1>13. ASSUME NEW ids \in SUBSET WsIds, active \notin ids, Forget(ids),
              space' = SpaceWithout(ids), UNCHANGED <<active, life>>
       PROVE  VisibleAppsShown'
  <2>1. space'[active] = space[active]
    BY <1>0, <1>13 DEF SpaceWithout
  <2> QED
    BY <1>0, <1>12, <1>13, <2>1, ShownKept
<1>14. ASSUME NEW w \in WsIds, RemoveWorkspace(w) PROVE VisibleAppsShown'
  BY <1>13, <1>14 DEF RemoveWorkspace, hostVars
<1>15. CASE DetectDead
  <2> DEFINE gone == DeadWorkspaces
             mg == managed \ AppsOf(gone)
             sp == SpaceWithout(gone)
  <2>1. /\ gone \in SUBSET WsIds
        /\ active \notin gone
        /\ Forget(gone)
        /\ UNCHANGED life
    BY <1>15 DEF DetectDead, DeadWorkspaces, hostVars, TypeOK
  <2>2. CASE \E w \in WsIds : SwitchTo(w, mg, frame, sp)
    <3>1. PICK w \in WsIds : SwitchTo(w, mg, frame, sp)
      BY <2>2
    <3>2. sp \in [WsIds -> SUBSET Toplevels] /\ mg \in SUBSET Clients
      BY <1>0 DEF SpaceWithout
    <3>3. managed' = mg /\ \A c \in mg : app'[c] = app[c]
      BY <1>12, <2>1 DEF Forget
    <3> HIDE DEF gone, mg, sp
    <3> QED
      BY <3>1, <3>2, <3>3, ShownSwitched
  <2>3. CASE space' = sp /\ UNCHANGED active
    BY <1>13, <2>1, <2>3
  <2> QED
    BY <1>15, <2>2, <2>3 DEF DetectDead, Fallbacks, TypeOK
<1>16. CASE CleanupDeadApps
  <2>1. /\ managed' = managed \ DeadApps
        /\ \A c \in managed' : app'[c] = app[c]
        /\ UNCHANGED <<active, life>>
    BY <1>0, <1>16 DEF CleanupDeadApps, hostVars
  <2>2. \A c \in managed' : c \in space[active] => c \in space'[active]
    BY <1>0, <1>16, <2>1 DEF CleanupDeadApps
  <2> QED
    BY <1>0, <2>1, <2>2, ShownKept
<1>17. CASE CleanupDeadDialogs
  BY <1>0, <1>2, <1>17 DEF CleanupDeadDialogs, Alive, appVars, hostVars
<1>18. ASSUME NEW c \in Clients, RequestFrame,
              \A d \in Clients \ {c} : app'[d] = app[d],
              \A d \in Clients \ {c} : d \in space[active] => d \in space'[active],
              Shown(c)' => c \in space'[active]
       PROVE  VisibleAppsShown'
  <2>1. UNCHANGED <<active, managed, life>>
    BY <1>18 DEF RequestFrame, hostVars
  <2> QED
    BY <1>18, <2>1, OthersShownKept
<1>19. ASSUME NEW c \in Clients, SetGeometry(c) PROVE VisibleAppsShown'
  <2> DEFINE a == Migrated([app[c] EXCEPT !.visible = TRUE])
             sp == SpaceMigrated(c)
  <2>1. a \in App
    BY <1>0, AppUpdates, MigratedIsApp
  <2>2. /\ sp \in [WsIds -> SUBSET Toplevels]
        /\ \A d \in Clients \ {c} : d \in space[active] => d \in sp[active]
    BY <1>0 DEF SpaceMigrated, App
  <2> HIDE DEF a, sp
  <2>3. RequestFrame
    BY <1>19 DEF SetGeometry
  <2>4. CASE ~a.placed
    <3>1. app' = [app EXCEPT ![c] = [a EXCEPT !.placed = TRUE]]
          /\ space' = [sp EXCEPT ![active] = @ \cup {c}]
      BY <1>19, <2>4 DEF SetGeometry, a, sp
    <3>2. /\ c \in space'[active]
          /\ \A d \in Clients \ {c} : d \in space[active] => d \in space'[active]
      BY <1>0, <2>2, <3>1
    <3>3. \A d \in Clients \ {c} : app'[d] = app[d]
      BY <1>0, <3>1
    <3> QED
      BY <1>18, <2>3, <3>2, <3>3
  <2>5. CASE a.placed
    <3>1. app' = [app EXCEPT ![c] = [a EXCEPT !.pend = "waiting"]] /\ space' = sp
      BY <1>19, <2>5 DEF SetGeometry, a, sp
    <3>2. \A d \in Clients \ {c} : app'[d] = app[d]
      BY <1>0, <3>1
    <3>3. app'[c].pend = "waiting"
      BY <1>0, <2>1, <3>1 DEF App
    <3>4. ~Shown(c)'
      BY <3>3 DEF Shown
    <3> QED
      BY <1>18, <2>2, <2>3, <3>1, <3>2, <3>4
  <2> QED
    BY <2>4, <2>5
<1>20. ASSUME NEW c \in Clients, HideApp(c) PROVE VisibleAppsShown'
  <2>1. /\ ~app'[c].visible
        /\ \A d \in Clients \ {c} : app'[d] = app[d]
        /\ \A d \in Clients \ {c} : d \in space[active] => d \in space'[active]
        /\ RequestFrame
    BY <1>0, <1>20 DEF HideApp, App
  <2> QED
    BY <1>18, <2>1 DEF Shown
<1>21. ASSUME NEW c \in Clients, ShowApp(c) PROVE VisibleAppsShown'
  <2> DEFINE a == Migrated(app[c])
             sp == SpaceMigrated(c)
  <2>1. RequestFrame
    BY <1>21 DEF ShowApp
  <2>2. CASE app[c].placed
    <3>1. /\ sp \in [WsIds -> SUBSET Toplevels]
          /\ \A d \in Clients \ {c} : d \in space[active] => d \in sp[active]
      BY <1>0 DEF SpaceMigrated, App
    <3> HIDE DEF a, sp
    <3>2. app' = [app EXCEPT ![c] = [a EXCEPT !.visible = TRUE, !.placed = TRUE]]
          /\ space' = [sp EXCEPT ![active] = @ \cup {c}]
      BY <1>21, <2>2 DEF ShowApp, a, sp
    <3>3. /\ c \in space'[active]
          /\ \A d \in Clients \ {c} : d \in space[active] => d \in space'[active]
      BY <1>0, <3>1, <3>2
    <3>4. \A d \in Clients \ {c} : app'[d] = app[d]
      BY <1>0, <3>2
    <3> QED
      BY <1>18, <2>1, <3>3, <3>4
  <2>3. CASE ~app[c].placed
    <3>1. app' = [app EXCEPT ![c].visible = TRUE] /\ UNCHANGED space
      BY <1>21, <2>3 DEF ShowApp
    <3>2. ~app'[c].placed /\ \A d \in Clients \ {c} : app'[d] = app[d]
      BY <1>0, <2>3, <3>1 DEF App
    <3>3. ~Shown(c)'
      BY <3>2 DEF Shown
    <3> QED
      BY <1>18, <2>1, <3>1, <3>2, <3>3
  <2> QED
    BY <2>2, <2>3
<1>22. ASSUME NEW c \in Clients, NEW m \in WsIds \cup {NoWs}, RequestFrame, UNCHANGED space,
              app' = [app EXCEPT ![c].mirror = m]
       PROVE  VisibleAppsShown'
  <2>1. /\ \A d \in Clients \ {c} : app'[d] = app[d]
        /\ app'[c].ws = app[c].ws
        /\ app'[c].visible = app[c].visible
        /\ app'[c].placed = app[c].placed
        /\ app'[c].pend = app[c].pend
    BY <1>0, <1>22 DEF App
  <2>2. UNCHANGED <<active, managed, life>>
    BY <1>22 DEF RequestFrame, hostVars
  <2>3. \A d \in managed' : Shown(d)' => Shown(d)
    BY <1>0, <2>1, <2>2 DEF Shown, Alive
  <2> QED
    BY <1>22, <2>2, <2>3 DEF VisibleAppsShown, Shown
<1>23. ASSUME NEW c \in Clients, AddMirror(c) \/ RemoveMirror(c) PROVE VisibleAppsShown'
  BY <1>0, <1>22, <1>23 DEF AddMirror, RemoveMirror
<1>24. ASSUME NEW c \in Clients, PromoteMirror(c) PROVE VisibleAppsShown'
  <2> DEFINE to == app[c].mirror
  <2>1. /\ \A d \in Clients \ {c} : app'[d] = app[d]
        /\ app'[c].ws = to
        /\ RequestFrame
        /\ to \in WsIds
    BY <1>0, <1>24 DEF PromoteMirror, App
  <2>2. \A d \in Clients \ {c} : d \in space[active] => d \in space'[active]
    BY <1>0, <1>24 DEF PromoteMirror
  <2>3. to = active => c \in space'[active]
    <3>1. active \in workspaces
      BY DEF TypeOK
    <3> QED
      BY <1>0, <1>24, <3>1 DEF PromoteMirror
  <2>4. Shown(c)' => c \in space'[active]
    BY <2>1, <2>3 DEF Shown, RequestFrame
  <2> QED
    BY <1>18, <2>1, <2>2, <2>4
<1>25. CASE ForceCommit
  <2>1. /\ \A c \in Clients \ Overdue : app'[c] = app[c]
        /\ UNCHANGED <<active, managed, life>>
    BY <1>0, <1>25 DEF ForceCommit, hostVars
  <2>2. Overdue \in SUBSET Clients /\ active \in workspaces
    BY DEF Overdue, TypeOK
  <2>3. space'[active] = space[active] \cup {c \in Overdue : app[c].ws = active}
    BY <1>0, <1>25, <2>2 DEF ForceCommit
  <2>4. \A c \in Overdue : app'[c].ws = app[c].ws
    <3> SUFFICES ASSUME NEW c \in Overdue PROVE app'[c].ws = app[c].ws
      OBVIOUS
    <3>1. app'[c] = [app[c] EXCEPT !.placed = TRUE, !.pend = "none"]
      BY <1>25, <2>2 DEF ForceCommit
    <3>2. app[c] \in App
      BY <1>0, <2>2
    <3> QED
      BY <3>1, <3>2 DEF App
  <2>5. \A c \in Overdue : Shown(c)' => c \in space'[active]
    BY <2>1, <2>3, <2>4 DEF Shown
  <2> QED
    BY <1>0, <2>1, <2>2, <2>3, <2>5, ShownKept
<1>26. CASE UNCHANGED <<active, managed, app, life, space>>
  BY <1>2, <1>26
<1> QED
  BY <1>3, <1>4, <1>5, <1>6, <1>7, <1>8, <1>9, <1>10, <1>11, <1>14, <1>15, <1>16, <1>17, <1>19,
     <1>20, <1>21, <1>23, <1>24, <1>25, <1>26
  DEF Next, Environment, Requests, Tick, vars, wsVars, appVars, hostVars, Click, WakeUp, Relayout,
      HostFocusLeave, HostFocusEnter, SetFocus, SetMigrationPolicy, StartTick, KeepChildFrame,
      EndToplevels, DropDeadToplevel, PromoteDialog, EndApps, EndActions, EndIpc

\* The policy never changes where Emacs has no other one to select.
LEMMA PolicyStep ==
  ASSUME Policies \subseteq {ByWorkspaceAffinity}
  PROVE  policy = ByWorkspaceAffinity /\ [Next]_vars => policy' = ByWorkspaceAffinity
BY DEF Next, Environment, Requests, Tick, vars, RequestFrame, ClaimMain, NewFrame, NewClient,
       Commit, TimerElapses, Die, Click, WakeUp, Redraw, Relayout, HostFocusLeave, HostFocusEnter,
       ActivateWorkspace, RemoveWorkspace, SetGeometry, HideApp, ShowApp, AddMirror,
       RemoveMirror, PromoteMirror, SetFocus, SetMigrationPolicy, StartTick, KeepChildFrame,
       CreateWorkspace, EndToplevels, DropDeadToplevel, PromoteDialog, RegisterApp, EndApps,
       EndActions, DetectDead, CleanupDeadApps, CleanupDeadDialogs, EndIpc, ForceCommit

\* Where Emacs never leaves by_workspace_affinity, no sequence of requests,
\* commits, timeouts, deaths and switches loses a visible app of the active
\* workspace.
THEOREM VisibleCorrect ==
  ASSUME Policies \subseteq {ByWorkspaceAffinity}
  PROVE  Spec => []VisibleAppsShown
<1>1. Init => policy = ByWorkspaceAffinity /\ VisibleAppsShown
  BY DEF Init, VisibleAppsShown
<1>2. policy = ByWorkspaceAffinity /\ [Next]_vars => (policy = ByWorkspaceAffinity)'
  BY PolicyStep
<1> QED
  BY <1>1, <1>2, TypeCorrect, ShownStep, PTL DEF Spec

----------------------------------------------------------------------------
(* The messages to Emacs implement EmacsView                               *)

\* Every toplevel of a client waits for its classification at most once.
QueueInv ==
  /\ \A i, j \in DOMAIN pendingApps : i /= j => pendingApps[i] /= pendingApps[j]
  /\ \A i \in DOMAIN pendingApps : life[pendingApps[i]] /= "unborn"

\* The clients' toplevels that will never be announced (again).
Used == {c \in Clients : /\ life[c] /= "unborn"
                         /\ \A i \in DOMAIN pendingApps : pendingApps[i] /= c}

\* Taking the oldest toplevel from the queue settles what it is, for good.
LEMMA QueueTail ==
  ASSUME TypeOK, QueueInv, pendingApps /= <<>>, pendingApps' = Tail(pendingApps), UNCHANGED life
  PROVE  /\ QueueInv'
         /\ Head(pendingApps) \in Clients \ Used
         /\ Used' = Used \cup {Head(pendingApps)}
<1>1. /\ 1 \in DOMAIN pendingApps
      /\ Head(pendingApps) = pendingApps[1]
      /\ Head(pendingApps) \in Clients
      /\ pendingApps \in Seq(Clients)
  BY DEF TypeOK
<1>2. \A i \in DOMAIN pendingApps' :
        i + 1 \in DOMAIN pendingApps /\ i + 1 /= 1 /\ pendingApps'[i] = pendingApps[i + 1]
  BY <1>1
<1>3. \A i \in DOMAIN pendingApps : i = 1 \/ i - 1 \in DOMAIN pendingApps'
  BY <1>1
<1>4. DOMAIN pendingApps' \subseteq Nat /\ DOMAIN pendingApps \subseteq Nat
  BY <1>1
<1>5. QueueInv'
  BY <1>2, <1>4 DEF QueueInv
<1>6. ASSUME NEW c \in Clients
      PROVE  (\A i \in DOMAIN pendingApps' : pendingApps'[i] /= c)
             <=> (c = pendingApps[1] \/ \A i \in DOMAIN pendingApps : pendingApps[i] /= c)
  <2>1. CASE c = pendingApps[1]
    BY <1>1, <1>2, <2>1 DEF QueueInv
  <2>2. ASSUME c /= pendingApps[1], NEW i \in DOMAIN pendingApps, pendingApps[i] = c
        PROVE  \E j \in DOMAIN pendingApps' : pendingApps'[j] = c
    <3>1. i /= 1 /\ i - 1 \in DOMAIN pendingApps' /\ i \in Nat
      BY <1>3, <1>4, <2>2
    <3>2. pendingApps'[i - 1] = pendingApps[(i - 1) + 1]
      BY <1>2, <3>1
    <3> QED
      BY <2>2, <3>1, <3>2
  <2>3. ASSUME NEW j \in DOMAIN pendingApps', pendingApps'[j] = c
        PROVE  \E i \in DOMAIN pendingApps : pendingApps[i] = c
    BY <1>2, <2>3
  <2> QED
    BY <2>1, <2>2, <2>3
<1>7. Head(pendingApps) \notin Used
  BY <1>1 DEF Used
<1>8. life[Head(pendingApps)] /= "unborn"
  BY <1>1 DEF QueueInv
<1> QED
  BY <1>1, <1>5, <1>6, <1>7, <1>8 DEF Used

\* A toplevel that joins the queue is not settled yet.
LEMMA QueueAppend ==
  ASSUME TypeOK, QueueInv, NEW c \in Clients, NewClient(c)
  PROVE  QueueInv' /\ Used' = Used
<1>1. /\ life[c] = "unborn"
      /\ life' = [life EXCEPT ![c] = "alive"]
      /\ pendingApps' = Append(pendingApps, c)
  BY DEF NewClient
<1>2. \A i \in DOMAIN pendingApps' :
        \/ i = Len(pendingApps) + 1 /\ pendingApps'[i] = c
        \/ i \in DOMAIN pendingApps /\ pendingApps'[i] = pendingApps[i]
  BY <1>1 DEF TypeOK
<1>3. /\ \A i \in DOMAIN pendingApps : i \in DOMAIN pendingApps' /\ pendingApps'[i] = pendingApps[i]
      /\ Len(pendingApps) + 1 \in DOMAIN pendingApps'
      /\ pendingApps'[Len(pendingApps) + 1] = c
  BY <1>1 DEF TypeOK
<1>4. \A i \in DOMAIN pendingApps : pendingApps[i] \in Clients /\ pendingApps[i] /= c
  BY <1>1 DEF TypeOK, QueueInv
<1>5. \A d \in Clients : life'[d] = IF d = c THEN "alive" ELSE life[d]
  BY <1>1 DEF TypeOK, Toplevels
<1>6. QueueInv'
  BY <1>2, <1>4, <1>5 DEF QueueInv
<1>7. \A d \in Clients : d \in Used' <=> d \in Used
  BY <1>1, <1>2, <1>3, <1>5 DEF Used
<1>8. Used \subseteq Clients /\ Used' \subseteq Clients
  BY DEF Used
<1> QED
  BY <1>6, <1>7, <1>8

\* Steps that neither hear of a client's toplevel nor classify one.
LEMMA QueueKept ==
  ASSUME TypeOK, QueueInv, UNCHANGED pendingApps,
         \A c \in Clients : life'[c] = "unborn" <=> life[c] = "unborn"
  PROVE  QueueInv' /\ Used' = Used
<1>1. \A i \in DOMAIN pendingApps : pendingApps[i] \in Clients
  BY DEF TypeOK
<1> QED
  BY <1>1 DEF QueueInv, Used

\* Every step is a step of EmacsView, or changes nothing that Emacs is told.
LEMMA ViewSimulated ==
  ASSUME TypeOK, EmacsViewAgrees, FrameInv, QueueInv, [Next]_vars
  PROVE  QueueInv' /\ [View!Next]_(View!view)
<1> DEFINE Done == QueueInv' /\ [View!Next]_(View!view)
           SameApps == UNCHANGED <<toldApps, Used>>
           SameWs == UNCHANGED <<toldWs, nextWs, toldActive>>
<1>1. UNCHANGED <<toldVars, nextWs, Used>> => UNCHANGED View!view
  BY DEF View!view, toldVars, Used
<1>2. ASSUME UNCHANGED <<pendingApps, life>> PROVE QueueInv' /\ UNCHANGED Used
  BY <1>2, QueueKept
<1>3. ASSUME UNCHANGED <<toldVars, nextWs, pendingApps, life>> PROVE Done
  BY <1>1, <1>2, <1>3
<1>4. ASSUME NEW t \in Toplevels,
             \/ t \in Frames /\ life' = [life EXCEPT ![t] = "alive"]
             \/ Alive(t) /\ life' = [life EXCEPT ![t] = "dead"],
             UNCHANGED <<toldVars, nextWs, pendingApps>>
      PROVE  Done
  <2>1. \A c \in Clients : life'[c] = "unborn" <=> life[c] = "unborn"
    BY <1>4, ConstantsAssumption DEF TypeOK, Toplevels, Alive
  <2> QED
    BY <1>1, <1>4, <2>1, QueueKept
<1>5. ASSUME NEW e \in Frames, ClaimMain(e) \/ NewFrame(e) PROVE Done
  BY <1>4, <1>5 DEF ClaimMain, NewFrame, Toplevels, queueVars
<1>6. ASSUME NEW t \in Toplevels, Die(t) PROVE Done
  BY <1>4, <1>6 DEF Die, wsVars, queueVars
<1>7. ASSUME NEW c \in Clients, NewClient(c) PROVE Done
  BY <1>1, <1>7, QueueAppend DEF NewClient
<1>8. CASE DropDeadToplevel \/ PromoteDialog
  <2>1. /\ QueueInv'
        /\ Head(pendingApps) \in Clients \ Used
        /\ Used' = Used \cup {Head(pendingApps)}
    BY <1>8, QueueTail DEF DropDeadToplevel, PromoteDialog, hostVars
  <2>2. UNCHANGED <<toldVars, nextWs>>
    BY <1>8 DEF DropDeadToplevel, PromoteDialog, wsVars
  <2>3. View!WindowPassedOver
    BY <2>1, <2>2 DEF View!WindowPassedOver, toldVars, Used
  <2> QED
    BY <2>1, <2>3 DEF View!Next
<1>9. CASE RegisterApp
  <2>1. /\ QueueInv'
        /\ Head(pendingApps) \in Clients \ Used
        /\ Used' = Used \cup {Head(pendingApps)}
    BY <1>9, QueueTail DEF RegisterApp, hostVars
  <2>2. toldApps' = toldApps \cup {Head(pendingApps)} /\ UNCHANGED <<nextWs, toldWs, toldActive>>
    BY <1>9 DEF RegisterApp, wsVars
  <2>3. View!WindowCreated
    BY <2>1, <2>2 DEF View!WindowCreated, Used
  <2> QED
    BY <2>1, <2>3 DEF View!Next
<1>10. CASE CreateWorkspace
  <2>1. /\ toldWs' = toldWs \cup {nextWs}
        /\ nextWs' = nextWs + 1
        /\ toldActive' = nextWs
        /\ nextWs \in WsIds
        /\ UNCHANGED <<toldApps, pendingApps, life>>
    BY <1>10 DEF CreateWorkspace, SwitchTo, hostVars
  <2>2. /\ nextWs \in WsIds \ (1 .. nextWs - 1)
        /\ 1 .. nextWs' - 1 = (1 .. nextWs - 1) \cup {nextWs}
    BY <2>1 DEF TypeOK, WsIds
  <2>3. QueueInv' /\ UNCHANGED Used
    BY <1>2, <2>1
  <2>4. View!WorkspaceCreated
    BY <2>1, <2>2, <2>3 DEF View!WorkspaceCreated, Used
  <2> QED
    BY <2>3, <2>4 DEF View!Next
<1>11. ASSUME NEW w \in WsIds, ActivateWorkspace(w) PROVE Done
  <2>1. /\ toldActive' = w
        /\ w \in toldWs
        /\ UNCHANGED <<toldApps, toldWs, nextWs, pendingApps, life>>
    BY <1>11 DEF ActivateWorkspace, SwitchTo, EmacsViewAgrees, queueVars, hostVars
  <2>2. QueueInv' /\ UNCHANGED Used
    BY <1>2, <2>1
  <2>3. View!WorkspaceSwitched
    BY <2>1, <2>2 DEF View!WorkspaceSwitched, Used
  <2> QED
    BY <2>2, <2>3 DEF View!Next
<1>12. ASSUME NEW gone \in SUBSET (workspaces \ {active}), Forget(gone),
              toldActive' \in workspaces \ gone,
              UNCHANGED <<nextWs, pendingApps, life>>
       PROVE  Done
  <2>1. /\ toldApps' \subseteq toldApps
        /\ toldWs' = workspaces \ gone
        /\ toldActive \in workspaces \ gone
        /\ toldWs' \subseteq toldWs
    BY <1>12 DEF Forget, EmacsViewAgrees, TypeOK
  <2>2. QueueInv' /\ UNCHANGED Used
    BY <1>2, <1>12
  <2>3. View!WorkspacesDestroyed
    BY <1>12, <2>1, <2>2 DEF View!WorkspacesDestroyed, Used
  <2> QED
    BY <2>2, <2>3 DEF View!Next
<1>13. ASSUME NEW w \in WsIds, RemoveWorkspace(w) PROVE Done
  <2>1. /\ {w} \in SUBSET (workspaces \ {active})
        /\ Forget({w})
        /\ toldActive' \in workspaces \ {w}
        /\ UNCHANGED <<nextWs, pendingApps, life>>
    BY <1>13 DEF RemoveWorkspace, EmacsViewAgrees, TypeOK, queueVars, hostVars
  <2> QED
    BY <1>12, <2>1
<1>14. CASE DetectDead
  <2>1. /\ DeadWorkspaces \in SUBSET (workspaces \ {active})
        /\ Forget(DeadWorkspaces)
        /\ UNCHANGED <<nextWs, pendingApps, life>>
    BY <1>14 DEF DetectDead, DeadWorkspaces, queueVars, hostVars
  <2>2. toldActive' \in workspaces \ DeadWorkspaces
    BY <1>14, <2>1 DEF DetectDead, Fallbacks, SwitchTo, EmacsViewAgrees, TypeOK
  <2> QED
    BY <1>12, <2>1, <2>2
<1>15. CASE CleanupDeadApps
  <2>1. /\ toldApps' \subseteq toldApps
        /\ UNCHANGED <<toldWs, toldActive, nextWs, pendingApps, life>>
    BY <1>15 DEF CleanupDeadApps, queueVars, hostVars
  <2>2. QueueInv' /\ UNCHANGED Used
    BY <1>2, <2>1
  <2>3. View!WindowsDestroyed
    BY <2>1, <2>2 DEF View!WindowsDestroyed, Used
  <2> QED
    BY <2>2, <2>3 DEF View!Next
<1> QED
  BY <1>3, <1>5, <1>6, <1>7, <1>8, <1>9, <1>10, <1>11, <1>13, <1>14, <1>15
  DEF Next, Environment, Requests, Tick, vars, wsVars, queueVars, hostVars, toldVars,
      RequestFrame, Commit, TimerElapses, Click, WakeUp, Redraw, Relayout, HostFocusLeave,
      HostFocusEnter, SetGeometry, HideApp, ShowApp, AddMirror, RemoveMirror, PromoteMirror,
      SetFocus, SetMigrationPolicy, StartTick, KeepChildFrame, EndToplevels, EndApps,
      EndActions, CleanupDeadDialogs, EndIpc, ForceCommit

\* The compositor implements the abstract view: windows and workspace ids are
\* announced once, only announced ones are destroyed or switched to, and the
\* active workspace is never destroyed.
THEOREM EmacsViewImplemented == Spec => EmacsViewSpec
<1>1. ASSUME Init PROVE View!Init /\ QueueInv
  <2>1. Used = {} /\ QueueInv
    BY <1>1 DEF Init, Used, QueueInv, Toplevels
  <2>2. 1 .. nextWs - 1 = {1}
    BY <1>1 DEF Init
  <2> QED
    BY <1>1, <2>1, <2>2 DEF Init, View!Init, Used
<1> DEFINE Inv == TypeOK /\ FrameInv /\ EmacsViewAgrees /\ QueueInv
<1>2. Init => Inv
  <2>1. Init => EmacsViewAgrees
    BY DEF Init, EmacsViewAgrees
  <2> QED
    BY <1>1, <2>1, InitType, InitFrames
<1>3. Inv /\ [Next]_vars => Inv' /\ [View!Next]_(View!view)
  BY TypeStep, FrameStep, ViewStep, ViewSimulated
<1> QED
  BY <1>1, <1>2, <1>3, PTL DEF Spec, EmacsViewSpec, View!Spec
=============================================================================
