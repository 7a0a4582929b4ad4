----------------------------- MODULE Workspaces -----------------------------
(***************************************************************************)
(* The compositor's core: Emacs frames, workspaces, embedded applications  *)
(* and keyboard focus.                                                     *)
(*                                                                         *)
(* emthin is a single-threaded calloop program.  Every iteration first     *)
(* dispatches what clients, the host window and timers delivered (phase    *)
(* "dispatch") and then runs event_loop_tick, whose steps follow in a      *)
(* fixed order: one phase each.  Nothing of the environment happens        *)
(* between two steps of a tick.                                            *)
(*                                                                         *)
(* The code swaps the active workspace's Space and Emacs surface in and    *)
(* out of a map of inactive ones; here every workspace has its own entry   *)
(* in `frame` and `space`, and `active` names the one that is swapped in.  *)
(* A window id is the toplevel it was allocated for: register_embedded_app *)
(* runs at most once per toplevel and AppManager never reuses an id.       *)
(***************************************************************************)
EXTENDS Naturals, Sequences, FiniteSets

CONSTANTS
  Frames,     \* toplevels of the Emacs client; the first one is the main frame
  Clients,    \* toplevels of all other clients: embedded apps and dialogs
  XClients,   \* those of Clients that share xwayland-satellite's connection
  Policies,   \* the migration policies Emacs may select
  MaxWs,      \* bound: workspace ids that may be allocated
  None,       \* Option::None for a surface or a focus target
  NotSaved    \* the Host entry is absent from FocusState.saves

Manual == "manual"
ByWorkspaceAffinity == "by_workspace_affinity"

ASSUME ConstantsAssumption ==
  /\ Frames \cap Clients = {}
  /\ XClients \subseteq Clients
  /\ Policies \subseteq {Manual, ByWorkspaceAffinity}
  /\ MaxWs \in Nat \ {0}
  /\ None \notin Frames \cup Clients
  /\ NotSaved \notin Frames \cup Clients \cup {None}

Toplevels == Frames \cup Clients
Targets   == Toplevels \cup {None}
WsIds     == 1 .. MaxWs
NoWs      == 0

\* The steps of one event loop iteration, in the order the code runs them.
Phases == {"dispatch", "toplevels", "apps", "actions", "dead", "reapApps",
           "reapDialogs", "ipc", "timeout", "stopped"}

\* AppWindow.  `placed`: geometry is Some.  `pend`: pending_geometry is None,
\* is Some, or is Some and older than 100 ms.  `mirror`: the workspace of the
\* app's mirror view, if it has one.
App == [ws : WsIds, placed : BOOLEAN, pend : {"none", "waiting", "due"},
        visible : BOOLEAN, mirror : WsIds \cup {NoWs}]

VARIABLES
  phase,          \* where in the event loop iteration we are
  stopping,       \* why loop_signal.stop() was called, if it was
  life,           \* each toplevel: "unborn", "alive" or "dead"
  workspaces,     \* existing workspace ids
  active,         \* WorkspaceState.active_id
  nextWs,         \* WorkspaceState.next_id
  frame,          \* emacs_surface of each workspace
  space,          \* the windows mapped in each workspace's Space
  over,           \*   and which other Emacs toplevels lie over its frame there
  pendingFrames,  \* pending_emacs_toplevels
  pendingApps,    \* pending_app_toplevels
  dialogs,        \* windows with a FloatingDialogTag
  managed,        \* windows that AppManager holds
  app,            \* their AppWindow entries
  policy,         \* migration_policy
  hostFocused,    \* does the host window have the host's keyboard focus
  focus,          \* keyboard.current_focus()
  saved,          \* FocusState.saves[Host]
  lastApp,        \* FocusState.last_app_focus
  toldApps,       \* what the IPC messages sent so far tell Emacs: the apps,
  toldWs,         \*   the workspaces,
  toldActive      \*   and the active workspace

wsVars    == <<workspaces, active, nextWs, frame, space>>
appVars   == <<managed, app, dialogs>>
queueVars == <<pendingFrames, pendingApps>>
focusVars == <<focus, saved, lastApp>>
hostVars  == <<hostFocused, life, over>>
toldVars  == <<toldApps, toldWs, toldActive>>
vars == <<phase, stopping, wsVars, appVars, queueVars, policy, focusVars,
          hostVars, toldVars>>

NewApp(w) == [ws |-> w, placed |-> FALSE, pend |-> "none", visible |-> FALSE,
              mirror |-> NoWs]

Init ==
  /\ phase = "dispatch"
  /\ stopping = "no"
  /\ life = [t \in Toplevels |-> "unborn"]
  /\ workspaces = {1}
  /\ active = 1
  /\ nextWs = 2
  /\ frame = [w \in WsIds |-> None]
  /\ space = [w \in WsIds |-> {}]
  /\ over = [w \in WsIds |-> {}]
  /\ pendingFrames = <<>>
  /\ pendingApps = <<>>
  /\ dialogs = {}
  /\ managed = {}
  /\ app = [c \in Clients |-> NewApp(1)]
  /\ policy = ByWorkspaceAffinity
  /\ hostFocused = TRUE
  /\ focus = None
  /\ saved = NotSaved
  /\ lastApp = None
  /\ toldApps = {}
  /\ toldWs = {1}
  /\ toldActive = 1

----------------------------------------------------------------------------
(* Helpers                                                                 *)

Alive(t) == life[t] = "alive"

\* emacs_focus_target: the workspace's Emacs window, if its Space holds it.
EmacsTarget(w, fr, sp) == IF fr[w] \in sp[w] THEN fr[w] ELSE None

\* Apps that a set of destroyed workspaces takes along.
AppsOf(ids) == {c \in managed : app[c].ws \in ids}

\* Mutants of Resync: the Space's other windows are dropped, foreign apps stay
\* mapped, missing apps stay unmapped.
ResyncWholeSpace(sp, mg, target) ==
  [sp EXCEPT ![target] = {c \in mg : app[c].ws = target}]
ResyncOnlyMaps(sp, mg, target) ==
  [sp EXCEPT ![target] = @ \cup {c \in mg : app[c].ws = target}]
ResyncOnlyUnmaps(sp, mg, target) ==
  [sp EXCEPT ![target] = @ \ {c \in mg : app[c].ws /= target}]

\* The affinity pass of switch_workspace over the Space of the target: apps
\* of other workspaces are unmapped from it, its own apps are all mapped.
Resync(sp, mg, target) ==
  IF policy = ByWorkspaceAffinity
  THEN [sp EXCEPT ![target] = (@ \ mg) \cup {c \in mg : app[c].ws = target}]
  ELSE sp

\* A mutant of ResetFocusState: the focus saved for the host survives.
KeepSavedFocus == saved' = saved /\ lastApp' = None

\* FocusState::reset_on_workspace_switch.
ResetFocusState == saved' = NotSaved /\ lastApp' = None

\* switch_workspace for a target that exists and is not active, when mg are
\* the apps still managed, and fr and sp the frames and Spaces at that point.
SwitchTo(target, mg, fr, sp) ==
  LET synced == Resync(sp, mg, target) IN
  /\ active' = target
  /\ space' = synced
  /\ ResetFocusState
  /\ toldActive' = target
  /\ focus' = EmacsTarget(target, fr, synced)

\* keyboard.current_focus() when a toplevel dies: whether the seat forgets a
\* dead target is up to smithay, and the code prepares for either.
FocusAfterDeath(t) ==
  IF focus = t THEN focus' \in {t, None} ELSE UNCHANGED focus

----------------------------------------------------------------------------
(* Dispatch: clients, the host window, timers                              *)

\* new_toplevel, first branch: the first toplevel becomes the main frame.
ClaimMain(e) ==
  /\ phase = "dispatch"
  /\ frame[active] = None
  /\ life[e] = "unborn"
  /\ life' = [life EXCEPT ![e] = "alive"]
  /\ frame' = [frame EXCEPT ![active] = e]
  /\ space' = [space EXCEPT ![active] = @ \cup {e}]
  /\ focus' = e
  /\ UNCHANGED <<phase, stopping, workspaces, active, nextWs, appVars, queueVars,
                 policy, saved, lastApp, hostFocused, over, toldVars>>

\* new_toplevel, second branch: another toplevel of the Emacs client.
NewFrame(e) ==
  /\ phase = "dispatch"
  /\ frame[active] /= None
  /\ life[e] = "unborn"
  /\ life' = [life EXCEPT ![e] = "alive"]
  /\ space' = [space EXCEPT ![active] = @ \cup {e}]
  /\ pendingFrames' = Append(pendingFrames, e)
  /\ UNCHANGED <<phase, stopping, workspaces, active, nextWs, frame, appVars,
                 pendingApps, policy, focusVars, hostFocused, over, toldVars>>

\* new_toplevel, third branch: a toplevel of any other client.
NewClient(c) ==
  /\ phase = "dispatch"
  /\ frame[active] /= None
  /\ life[c] = "unborn"
  /\ life' = [life EXCEPT ![c] = "alive"]
  /\ space' = [space EXCEPT ![active] = @ \cup {c}]
  /\ pendingApps' = Append(pendingApps, c)
  /\ UNCHANGED <<phase, stopping, workspaces, active, nextWs, frame, appVars,
                 pendingFrames, policy, focusVars, hostFocused, over, toldVars>>

\* The client destroys its toplevel or disconnects.
Die(t) ==
  /\ phase = "dispatch"
  /\ Alive(t)
  /\ life' = [life EXCEPT ![t] = "dead"]
  /\ FocusAfterDeath(t)
  /\ UNCHANGED <<phase, stopping, wsVars, appVars, queueVars, policy, saved,
                 lastApp, hostFocused, over, toldVars>>

\* CompositorHandler::commit of an app that owes the compositor a buffer for a
\* new geometry: geometry and position change together, in the active Space.
Commit(c) ==
  /\ phase = "dispatch"
  /\ Alive(c)
  /\ c \in managed
  /\ app[c].pend /= "none"
  /\ app' = [app EXCEPT ![c].placed = TRUE, ![c].pend = "none"]
  /\ space' = [space EXCEPT ![active] = @ \cup {c}]
  /\ UNCHANGED <<phase, stopping, workspaces, active, nextWs, frame, managed,
                 dialogs, queueVars, policy, focusVars, hostVars, toldVars>>

\* 100 ms pass since the app's pending geometry was set.
TimerElapses(c) ==
  /\ phase = "dispatch"
  /\ c \in managed
  /\ app[c].pend = "waiting"
  /\ app' = [app EXCEPT ![c].pend = "due"]
  /\ UNCHANGED <<phase, stopping, wsVars, managed, dialogs, queueVars, policy,
                 focusVars, hostVars, toldVars>>

\* A button press over window t, or over nothing (t = None): focus goes there,
\* else to Emacs, unless the client that has it owns that window as well.
SameClient(s, t) ==
  \/ s = t /\ s /= None
  \/ {s, t} \subseteq Frames
  \/ {s, t} \subseteq XClients

\* The workspace's frame fills the output: it hides the other Emacs toplevels
\* of its Space, which were lowered beneath it when they were mapped, until it
\* is lowered beneath them.
Covered(t) ==
  /\ t \in Frames \ {frame[active]}
  /\ frame[active] \in space[active]
  /\ Alive(frame[active])
  /\ t \notin over[active]

Click(t) ==
  LET target == IF t = None THEN EmacsTarget(active, frame, space) ELSE t IN
  /\ phase = "dispatch"
  /\ t = None \/ (t \in space[active] /\ Alive(t) /\ ~Covered(t))
  /\ ~SameClient(target, focus)
  /\ focus' = target
  /\ UNCHANGED <<phase, stopping, wsVars, appVars, queueVars, policy, saved,
                 lastApp, hostVars, toldVars>>

\* handle_wakeup: toggle between Emacs and the app that had focus last.
WakeUp ==
  LET emacs == EmacsTarget(active, frame, space) IN
  /\ phase = "dispatch"
  /\ IF focus = emacs
     THEN /\ lastApp /= None
          /\ focus' = IF Alive(lastApp) THEN lastApp ELSE focus
          /\ lastApp' = None
     ELSE /\ focus' = IF emacs /= None THEN emacs ELSE focus
          /\ lastApp' = IF focus /= None THEN focus ELSE lastApp
  /\ UNCHANGED <<phase, stopping, wsVars, appVars, queueVars, policy, saved,
                 hostVars, toldVars>>

\* on_focus_leave and on_focus_enter.
HostFocusLeave ==
  /\ phase = "dispatch"
  /\ hostFocused
  /\ hostFocused' = FALSE
  /\ saved' = focus
  /\ focus' = None
  /\ UNCHANGED <<phase, stopping, wsVars, appVars, queueVars, policy, lastApp,
                 life, over, toldVars>>

\* post_render after a Redraw event: Space::refresh of the active Space lets
\* go of the windows that died.
Redraw ==
  LET shown == {t \in space[active] : Alive(t)} IN
  /\ phase = "dispatch"
  /\ space[active] /= shown
  /\ space' = [space EXCEPT ![active] = shown]
  /\ UNCHANGED <<phase, stopping, workspaces, active, nextWs, frame, appVars, queueVars,
                 policy, focusVars, hostVars, toldVars>>

\* relayout_emacs, after the host resized the window: the frame of every
\* workspace is mapped anew and lowered beneath all else in its Space, the
\* Emacs toplevels included that are not its own.
Relayout ==
  /\ phase = "dispatch"
  /\ over' = [w \in WsIds |-> IF frame[w] \in space[w]
                              THEN (space[w] \cap Frames) \ {frame[w]}
                              ELSE over[w]]
  /\ UNCHANGED <<phase, stopping, wsVars, appVars, queueVars, policy, focusVars,
                 hostFocused, life, toldVars>>

HostFocusEnter ==
  /\ phase = "dispatch"
  /\ ~hostFocused
  /\ hostFocused' = TRUE
  /\ saved' = NotSaved
  /\ focus' = IF saved \in {None, NotSaved} THEN focus ELSE saved
  /\ UNCHANGED <<phase, stopping, wsVars, appVars, queueVars, policy, lastApp,
                 life, over, toldVars>>

----------------------------------------------------------------------------
(* event_loop_tick                                                         *)

\* The tick begins.  The loop ends after it if the Emacs child process is
\* found to have exited, or if the host asked to close the window.
StartTick ==
  /\ phase = "dispatch"
  /\ phase' = "toplevels"
  /\ stopping' \in {stopping, "asked"}
  /\ UNCHANGED <<wsVars, appVars, queueVars, policy, focusVars, hostVars, toldVars>>

\* process_pending_toplevels, for the oldest pending Emacs toplevel.  A child
\* frame (it has a parent by now) stays where it was mapped.
KeepChildFrame ==
  /\ phase = "toplevels"
  /\ pendingFrames /= <<>>
  /\ pendingFrames' = Tail(pendingFrames)
  /\ UNCHANGED <<phase, stopping, wsVars, appVars, pendingApps, policy, focusVars,
                 hostVars, toldVars>>

\* Any other one leaves the active Space for a workspace of its own, which
\* becomes the active one.  Bound: MaxWs.
CreateWorkspace ==
  LET e  == Head(pendingFrames)
      fr == [frame EXCEPT ![nextWs] = e]
      sp == [space EXCEPT ![active] = @ \ {e}, ![nextWs] = {e}]
  IN
  /\ phase = "toplevels"
  /\ pendingFrames /= <<>>
  /\ nextWs \in WsIds
  /\ pendingFrames' = Tail(pendingFrames)
  /\ workspaces' = workspaces \cup {nextWs}
  /\ nextWs' = nextWs + 1
  /\ frame' = fr
  /\ toldWs' = toldWs \cup {nextWs}
  /\ SwitchTo(nextWs, managed, fr, sp)
  /\ UNCHANGED <<phase, stopping, appVars, pendingApps, policy, hostVars, toldApps>>

EndToplevels ==
  /\ phase = "toplevels"
  /\ pendingFrames = <<>>
  /\ phase' = "apps"
  /\ UNCHANGED <<stopping, wsVars, appVars, queueVars, policy, focusVars, hostVars,
                 toldVars>>

\* process_pending_app_toplevels, for the oldest one: it may have died
\* meanwhile, be a floating dialog, or be an app.
DropDeadToplevel ==
  /\ phase = "apps"
  /\ pendingApps /= <<>>
  /\ ~Alive(Head(pendingApps))
  /\ pendingApps' = Tail(pendingApps)
  /\ UNCHANGED <<phase, stopping, wsVars, appVars, pendingFrames, policy, focusVars,
                 hostVars, toldVars>>

\* promote_floating_dialog.
PromoteDialog ==
  /\ phase = "apps"
  /\ pendingApps /= <<>>
  /\ Alive(Head(pendingApps))
  /\ pendingApps' = Tail(pendingApps)
  /\ dialogs' = dialogs \cup {Head(pendingApps)}
  /\ focus' = Head(pendingApps)
  /\ UNCHANGED <<phase, stopping, wsVars, managed, app, pendingFrames, policy, saved,
                 lastApp, hostVars, toldVars>>

\* register_embedded_app: the entry names the workspace active now, Emacs is
\* told, and the new window gets the keyboard.
RegisterApp ==
  LET c == Head(pendingApps) IN
  /\ phase = "apps"
  /\ pendingApps /= <<>>
  /\ Alive(c)
  /\ pendingApps' = Tail(pendingApps)
  /\ managed' = managed \cup {c}
  /\ app' = [app EXCEPT ![c] = NewApp(active)]
  /\ toldApps' = toldApps \cup {c}
  /\ focus' = c
  /\ UNCHANGED <<phase, stopping, wsVars, dialogs, pendingFrames, policy, saved,
                 lastApp, hostVars, toldWs, toldActive>>

EndApps ==
  /\ phase = "apps"
  /\ pendingApps = <<>>
  /\ phase' = "actions"
  /\ UNCHANGED <<stopping, wsVars, appVars, queueVars, policy, focusVars, hostVars,
                 toldVars>>

\* A mutant of Forget: no WindowDestroyed for the apps that go along.
ForgetSilently(ids) ==
  /\ workspaces' = workspaces \ ids
  /\ frame' = [w \in WsIds |-> IF w \in ids THEN None ELSE frame[w]]
  /\ managed' = managed \ AppsOf(ids)
  /\ app' = [c \in Clients |-> IF c \in AppsOf(ids) THEN NewApp(1) ELSE app[c]]
  /\ toldApps' = toldApps
  /\ toldWs' = toldWs \ ids

\* Forget the workspaces of `ids` and the apps that belong to them
\* (destroy_workspace for each): Emacs is told of every one of those apps.
Forget(ids) ==
  /\ workspaces' = workspaces \ ids
  /\ frame' = [w \in WsIds |-> IF w \in ids THEN None ELSE frame[w]]
  /\ managed' = managed \ AppsOf(ids)
  /\ app' = [c \in Clients |-> IF c \in AppsOf(ids) THEN NewApp(1) ELSE app[c]]
  /\ toldApps' = toldApps \ AppsOf(ids)
  /\ toldWs' = toldWs \ ids

SpaceWithout(ids) == [w \in WsIds |-> IF w \in ids THEN {} ELSE space[w]]

\* process_workspace_actions: an ext-workspace client asks to activate or to
\* remove a workspace; Emacs may ask for a switch too (phase "ipc").  Requests
\* for the active one and for one that is gone change nothing here (removing
\* the latter repeats its WorkspaceDestroyed, which tells Emacs nothing new).
ActivateWorkspace(w) ==
  /\ phase \in {"actions", "ipc"}
  /\ w \in workspaces \ {active}
  /\ SwitchTo(w, managed, frame, space)
  /\ UNCHANGED <<phase, stopping, workspaces, nextWs, frame, appVars, queueVars,
                 policy, hostVars, toldApps, toldWs>>

RemoveWorkspace(w) ==
  /\ phase = "actions"
  /\ w \in workspaces \ {active}
  /\ Forget({w})
  /\ space' = SpaceWithout({w})
  /\ UNCHANGED <<phase, stopping, active, nextWs, dialogs, queueVars, policy,
                 focusVars, hostVars, toldActive>>

EndActions ==
  /\ phase = "actions"
  /\ phase' = "dead"
  /\ UNCHANGED <<stopping, wsVars, appVars, queueVars, policy, focusVars, hostVars,
                 toldVars>>

HasLiveFrame(w) == frame[w] /= None /\ Alive(frame[w])

\* Mutants of DeadWorkspaces: the active one is reaped like the others, a dead
\* surface counts as a frame.
EveryDeadWorkspace == {w \in workspaces : ~HasLiveFrame(w)}
FramelessWorkspaces == {w \in workspaces \ {active} : frame[w] = None}

DeadWorkspaces == {w \in workspaces \ {active} : ~HasLiveFrame(w)}

MainDied == frame[active] /= None /\ ~HasLiveFrame(active)

\* Mutants of Fallbacks: only a later workspace qualifies, the ones just
\* destroyed qualify.
LaterFallbacks(gone) == {w \in workspaces \ gone : w > active}
StaleFallbacks(gone) == workspaces \ {active}

Fallbacks(gone) == (workspaces \ gone) \ {active}

\* detect_dead_workspaces: inactive workspaces whose frame is gone go first;
\* then, if the active frame died, an arbitrary remaining workspace becomes
\* active, or the compositor stops because there is none.
DetectDead ==
  LET gone == DeadWorkspaces
      left == Fallbacks(gone)
  IN
  /\ phase = "dead"
  /\ phase' = "reapApps"
  /\ Forget(gone)
  /\ IF MainDied /\ left /= {}
     THEN /\ \E w \in left : SwitchTo(w, managed \ AppsOf(gone), frame, SpaceWithout(gone))
          /\ UNCHANGED stopping
     ELSE /\ space' = SpaceWithout(gone)
          /\ stopping' = IF MainDied THEN "lastFrameDied" ELSE stopping
          /\ UNCHANGED <<active, focusVars, toldActive>>
  /\ UNCHANGED <<nextWs, dialogs, queueVars, policy, hostVars>>

\* cleanup_dead_apps: drop the entries of dead windows, unmap each from the
\* Space of its workspace and tell Emacs.
DeadApps == {c \in managed : ~Alive(c)}

CleanupDeadApps ==
  LET dead  == DeadApps
      clean == [w \in WsIds |-> space[w] \ {c \in dead : app[c].ws = w}]
  IN
  /\ phase = "reapApps"
  /\ phase' = "reapDialogs"
  /\ managed' = managed \ dead
  /\ app' = [c \in Clients |-> IF c \in dead THEN NewApp(1) ELSE app[c]]
  /\ space' = clean
  /\ toldApps' = toldApps \ dead
  /\ focus' = IF dead /= {} /\ focus = None THEN EmacsTarget(active, frame, clean) ELSE focus
  /\ UNCHANGED <<stopping, workspaces, active, nextWs, frame, dialogs, queueVars, policy,
                 saved, lastApp, hostVars, toldWs, toldActive>>

\* cleanup_dead_dialogs: every dead window left in any Space is unmapped, and
\* if there was one, Emacs gets a focus that nothing alive holds.
CleanupDeadDialogs ==
  LET clean == [w \in WsIds |-> {t \in space[w] : Alive(t)}] IN
  /\ phase = "reapDialogs"
  /\ phase' = "ipc"
  /\ space' = clean
  /\ focus' = IF clean /= space /\ (focus = None \/ ~Alive(focus))
              THEN EmacsTarget(active, frame, clean) ELSE focus
  /\ UNCHANGED <<stopping, workspaces, active, nextWs, frame, appVars, queueVars, policy,
                 saved, lastApp, hostVars, toldVars>>

----------------------------------------------------------------------------
(* IPC requests from Emacs, and the end of the tick                        *)

\* migrate_app_to_active on the entry of an app.
Migrated(a) ==
  IF a.ws = active THEN a
  ELSE [a EXCEPT !.ws = active, !.placed = FALSE, !.pend = "none"]

\* Its effect on the Spaces: the window leaves the one of its old workspace.
SpaceMigrated(c) ==
  IF app[c].ws = active THEN space
  ELSE [space EXCEPT ![app[c].ws] = @ \ {c}]

\* What every request to an app leaves alone.
RequestFrame ==
  /\ phase = "ipc"
  /\ UNCHANGED <<phase, stopping, workspaces, active, nextWs, frame, managed, dialogs,
                 queueVars, policy, focusVars, hostVars, toldVars>>

\* ipc_set_geometry: the app comes to the active workspace; a first geometry
\* maps it at once, a later one waits for the client's commit.
SetGeometry(c) ==
  LET a == Migrated([app[c] EXCEPT !.visible = TRUE])
      sp == SpaceMigrated(c)
  IN
  /\ c \in managed
  /\ IF ~a.placed
     THEN /\ app' = [app EXCEPT ![c] = [a EXCEPT !.placed = TRUE]]
          /\ space' = [sp EXCEPT ![active] = @ \cup {c}]
     ELSE /\ app' = [app EXCEPT ![c] = [a EXCEPT !.pend = "waiting"]]
          /\ space' = sp
  /\ RequestFrame

\* ipc_set_visibility.
HideApp(c) ==
  /\ c \in managed
  /\ app' = [app EXCEPT ![c].visible = FALSE]
  /\ space' = [space EXCEPT ![app[c].ws] = @ \ {c}]
  /\ RequestFrame

ShowApp(c) ==
  /\ c \in managed
  /\ IF app[c].placed
     THEN /\ app' = [app EXCEPT ![c] = [Migrated(@) EXCEPT !.visible = TRUE, !.placed = TRUE]]
          /\ space' = [SpaceMigrated(c) EXCEPT ![active] = @ \cup {c}]
     ELSE /\ app' = [app EXCEPT ![c].visible = TRUE]
          /\ UNCHANGED space
  /\ RequestFrame

\* ipc_add_mirror and ipc_remove_mirror.
AddMirror(c) ==
  /\ c \in managed
  /\ app' = [app EXCEPT ![c].mirror = active]
  /\ UNCHANGED space
  /\ RequestFrame

RemoveMirror(c) ==
  /\ c \in managed
  /\ app' = [app EXCEPT ![c].mirror = NoWs]
  /\ UNCHANGED space
  /\ RequestFrame

\* ipc_promote_mirror: the app takes the mirror's place.  In another workspace
\* it moves there, if that workspace still exists; in its own it is mapped
\* into the active Space.
PromoteMirror(c) ==
  LET to == app[c].mirror IN
  /\ c \in managed
  /\ to /= NoWs
  /\ app' = [app EXCEPT ![c].mirror = NoWs, ![c].placed = TRUE, ![c].ws = to]
  /\ space' = IF to = app[c].ws
              THEN [space EXCEPT ![active] = @ \cup {c}]
              ELSE [w \in WsIds |-> IF w = app[c].ws THEN space[w] \ {c}
                                    ELSE IF w = to /\ w \in workspaces THEN space[w] \cup {c}
                                    ELSE space[w]]
  /\ RequestFrame

\* ipc_set_focus, for an app or (c = None) for Emacs.
SetFocus(c) ==
  /\ phase = "ipc"
  /\ focus' = IF c \in managed THEN c ELSE EmacsTarget(active, frame, space)
  /\ UNCHANGED <<phase, stopping, wsVars, appVars, queueVars, policy, saved, lastApp,
                 hostVars, toldVars>>

SetMigrationPolicy(p) ==
  /\ phase = "ipc"
  /\ policy' = p
  /\ UNCHANGED <<phase, stopping, wsVars, appVars, queueVars, focusVars, hostVars,
                 toldVars>>

EndIpc ==
  /\ phase = "ipc"
  /\ phase' = "timeout"
  /\ UNCHANGED <<stopping, wsVars, appVars, queueVars, policy, focusVars, hostVars,
                 toldVars>>

\* The last step that matters here: geometries pending for more than 100 ms
\* are committed without the client, each in the Space of the app's workspace.
\* (OverdueShown is a mutant of Overdue: apps that are not shown are left out.)
OverdueShown == {c \in managed : app[c].pend = "due" /\ app[c].ws = active}

Overdue == {c \in managed : app[c].pend = "due"}

ForceCommit ==
  /\ phase = "timeout"
  /\ phase' = IF stopping = "no" THEN "dispatch" ELSE "stopped"
  /\ app' = [c \in Clients |-> IF c \in Overdue
                               THEN [app[c] EXCEPT !.placed = TRUE, !.pend = "none"]
                               ELSE app[c]]
  /\ space' = [w \in WsIds |-> IF w \in workspaces
                               THEN space[w] \cup {c \in Overdue : app[c].ws = w}
                               ELSE space[w]]
  /\ UNCHANGED <<stopping, workspaces, active, nextWs, frame, managed, dialogs, queueVars,
                 policy, focusVars, hostVars, toldVars>>

----------------------------------------------------------------------------

Environment ==
  \/ \E e \in Frames : ClaimMain(e) \/ NewFrame(e)
  \/ \E c \in Clients : NewClient(c) \/ Commit(c) \/ TimerElapses(c)
  \/ \E t \in Toplevels : Die(t)
  \/ \E t \in Toplevels \cup {None} : Click(t)
  \/ WakeUp \/ Redraw \/ Relayout \/ HostFocusLeave \/ HostFocusEnter

Requests ==
  \/ \E w \in WsIds : ActivateWorkspace(w) \/ RemoveWorkspace(w)
  \/ \E c \in Clients : \/ SetGeometry(c) \/ HideApp(c) \/ ShowApp(c)
                        \/ AddMirror(c) \/ RemoveMirror(c) \/ PromoteMirror(c)
  \/ \E c \in Clients \cup {None} : SetFocus(c)
  \/ \E p \in Policies : SetMigrationPolicy(p)

Tick ==
  \/ StartTick
  \/ KeepChildFrame \/ CreateWorkspace \/ EndToplevels
  \/ DropDeadToplevel \/ PromoteDialog \/ RegisterApp \/ EndApps
  \/ EndActions \/ DetectDead \/ CleanupDeadApps \/ CleanupDeadDialogs
  \/ EndIpc \/ ForceCommit

Next == Environment \/ Requests \/ Tick

Spec == Init /\ [][Next]_vars

\* The event loop keeps iterating, because each redraw the host delivers asks
\* for the next one; and the clock keeps running: 100 ms pass, whatever else
\* happens, for an app that is found waiting again and again.
Fairness ==
  /\ WF_vars(Tick)
  /\ \A c \in Clients : SF_vars(TimerElapses(c))

FairSpec == Spec /\ Fairness

----------------------------------------------------------------------------
(* Safety                                                                  *)

\* The type invariant; the active workspace is one of the existing ones.
TypeOK ==
  /\ phase \in Phases
  /\ stopping \in {"no", "asked", "lastFrameDied"}
  /\ life \in [Toplevels -> {"unborn", "alive", "dead"}]
  /\ workspaces \subseteq WsIds
  /\ active \in workspaces
  /\ nextWs \in 2 .. MaxWs + 1
  /\ frame \in [WsIds -> Frames \cup {None}]
  /\ space \in [WsIds -> SUBSET Toplevels]
  /\ over \in [WsIds -> SUBSET Frames]
  /\ pendingFrames \in Seq(Frames)
  /\ pendingApps \in Seq(Clients)
  /\ dialogs \subseteq Clients
  /\ managed \subseteq Clients
  /\ app \in [Clients -> App]
  /\ policy \in {Manual, ByWorkspaceAffinity}
  /\ hostFocused \in BOOLEAN
  /\ focus \in Targets
  /\ saved \in Targets \cup {NotSaved}
  /\ lastApp \in Targets
  /\ toldApps \subseteq Clients
  /\ toldWs \subseteq WsIds
  /\ toldActive \in WsIds

\* What the messages sent so far tell Emacs (WindowCreated, WindowDestroyed,
\* WorkspaceCreated, WorkspaceDestroyed, WorkspaceSwitched) is what the
\* compositor has, after every single step: no path that creates, reaps or
\* switches forgets its message.
EmacsViewAgrees ==
  /\ toldApps = managed
  /\ toldWs = workspaces
  /\ toldActive = active

\* A live Emacs frame is mapped in the Space of its own workspace, whatever
\* frames were created in the same batch, however often its workspace was
\* switched to and re-synchronised, and whatever was reaped around it.
\* Otherwise the workspace shows nothing and its Emacs cannot get the focus.
FrameMapped ==
  \A w \in workspaces : HasLiveFrame(w) => frame[w] \in space[w]

\* No toplevel is the frame of two workspaces: each Emacs toplevel is
\* claimed, or drained from pending_emacs_toplevels, once.
FramesDistinct ==
  \A v, w \in workspaces : v /= w /\ frame[v] = frame[w] => frame[v] = None

\* An Emacs toplevel that has the keyboard is mapped where the user looks, and
\* so is one that a slot refers to which gives focus back later (the one the
\* host's focus change restores, the one WakeUp toggles to): no way of moving
\* frames and switching workspaces sends wl_keyboard.enter to an unmapped one,
\* and the "Alt+Tab-away, workspace-switch, Alt+Tab-back" sequence is harmless.
FocusAtHome ==
  \A e \in Frames : e \in {focus, saved, lastApp} /\ Alive(e) => e \in space[active]

\* The compositor ends for want of Emacs frames only when the frame of every
\* workspace is dead: detect_dead_workspaces never overlooks a fallback.
StopOnlyWhenAllDead ==
  stopping = "lastFrameDied" => \A w \in workspaces : ~HasLiveFrame(w)

\* Where by_workspace_affinity is the only policy: a live app of the active
\* workspace that Emacs made visible, and that owes no commit, is mapped where
\* the user looks.  Migration, hiding, mirrors, switches, late commits and
\* timeouts all move windows between Spaces; none of them loses one.
VisibleAppsShown ==
  \A c \in managed :
    /\ Alive(c)
    /\ app[c].ws = active
    /\ app[c].visible
    /\ app[c].placed
    /\ app[c].pend = "none"
    => c \in space[active]

\* A switch under by_workspace_affinity leaves mapped in the new active Space
\* exactly the apps that belong to it, those reaped in the same step apart.
AffinityAfterSwitch ==
  [][active' /= active /\ policy = ByWorkspaceAffinity =>
       \A c \in managed' : c \in space'[active'] <=> app'[c].ws = active']_vars

\* What Emacs is told is a story EmacsView allows: windows and workspace ids
\* are announced once in a lifetime, only announced ones are destroyed or
\* switched to, and the active workspace never is destroyed.
View == INSTANCE EmacsView WITH
  Windows    <- Clients,
  Ids        <- WsIds,
  apps       <- toldApps,
  usedApps   <- {c \in Clients : /\ life[c] /= "unborn"
                                 /\ \A i \in DOMAIN pendingApps : pendingApps[i] /= c},
  workspaces <- toldWs,
  usedIds    <- 1 .. nextWs - 1,
  active     <- toldActive

EmacsViewSpec == View!Spec

----------------------------------------------------------------------------
(* Liveness, of FairSpec                                                   *)

\* An Emacs frame that dies does not keep its workspace: it is destroyed, or
\* the compositor stops.  Only who activates the dead frame's workspace again
\* and again can keep it: the active one is left first and reaped a tick later.
DeadFrameReaped ==
  \A e \in Frames :
    \/ (\E w \in workspaces : frame[w] = e /\ life[e] = "dead")
       ~> (phase = "stopped" \/ \A w \in workspaces : frame[w] /= e)
    \/ []<><<\E w \in WsIds : ActivateWorkspace(w)>>_vars

\* Once the frame of every workspace is dead the compositor stops, unless
\* Emacs still comes up with a new frame.
LastFrameStops ==
  (frame[active] /= None /\ \A w \in workspaces : ~HasLiveFrame(w))
  ~> (phase = "stopped" \/ \E w \in workspaces : HasLiveFrame(w))

\* A new geometry takes effect, through the client's commit or 100 ms later
\* without it: only an Emacs that keeps sending geometries can postpone it.
GeometrySettles ==
  \A c \in Clients :
    \/ app[c].pend /= "none" ~> (app[c].pend = "none" \/ phase = "stopped")
    \/ []<><<SetGeometry(c)>>_vars

----------------------------------------------------------------------------
(* What documents and comments say, and the code does not do               *)

\* docs/migration-policy-design.md on by_workspace_affinity: "workspace_id !=
\* active_id => unmapped from active_space", and no conflict with geometry
\* updates.  commit maps an app of another workspace into the active Space.
AffinityHolds ==
  phase = "dispatch" =>
    \A c \in managed : app[c].ws /= active => c \notin space[active]

\* state/workspace.rs: "each Emacs frame = one workspace"; xdg_shell.rs: a new
\* frame "sits briefly in the active space".  One that is drained after another
\* has switched workspaces stays mapped where it arrived, and once a resize of
\* the host has lifted it over the frame there, a click gives it the keyboard
\* though its own workspace is not shown and the frame of the one shown lives.
FocusOnOwnFrame ==
  HasLiveFrame(active) =>
    \A w \in workspaces \ {active} : HasLiveFrame(w) => focus /= frame[w]
=============================================================================
