# TLA+ specifications of emthin

emthin is a nested Wayland compositor whose window manager is Emacs: it runs as
a window of a host compositor, shows one fullscreen Emacs frame per workspace,
and places the windows of other clients ("embedded apps") where Emacs asks over
IPC. This directory models its core and what surrounds it (transport, X11
support, input methods, clipboard) in TLA+, checks the models with TLC and
proves the main properties with TLAPS.

    tlc -workers 2 -config apps.cfg MCWorkspaces      # PROJECT.json pairs .cfg files and modules
    tlapm Workspaces_proofs.tla                       # and the other *_proofs.tla

Paths below are relative to `src/crates/emthin/src/` unless they start with
`docs/` or `elisp/`.

## Inventory

| Component | State | Operations and interactions | Hard behaviour | Correct when |
|---|---|---|---|---|
| Event loop (`main.rs`, `tick.rs`) | none of its own | dispatches clients, host window, timers, sockets; then one `event_loop_tick`, eight steps in fixed order | what is deferred by one tick meets what changed meanwhile | every step leaves a state the next one expects |
| Workspaces and frames (`state/workspace.rs`, `state/mod.rs`, `state/emacs.rs`, `handlers/xdg_shell.rs`) | active Space and frame, map of inactive ones, ids, two queues of unclassified toplevels | claim, defer and classify toplevels; create, switch, remove, reap workspaces; stop | several frames in one batch, several deaths in one tick, death of the active frame | live frames are mapped at home; the fallback is a workspace that still exists; the compositor stops only when nothing is left |
| Embedded apps (`state/apps.rs`, `handlers/apps.rs`, `handlers/compositor.rs`) | per app: workspace, geometry, pending geometry and its age, visibility, mirrors | register, set geometry, commit, time out, hide, show, migrate, promote a mirror, reap | a commit or timeout that arrives after a switch, a migration or a hide | an app that Emacs wants to see is seen; geometries take effect |
| Dialogs (`handlers/dialogs.rs`) | a tag on the window | promote, centre, reap from every Space, return the focus | dead windows of any kind in any Space | nothing dead stays mapped |
| Keyboard focus (`state/focus.rs`, `input.rs`) | the seat's target, the host's saved slot, the last app for WakeUp | click, WakeUp, host focus, requests of Emacs, switches, deaths | slots saved before a switch and used after it | never on a frame that is not shown |
| IPC requests and messages (`ipc/dispatch.rs`, `ipc/messages.rs`) | none | applies requests; every component sends messages | a path that forgets its message | Emacs knows what the compositor has |
| IPC transport (`ipc/mod.rs`, `ipc/connection.rs`) | listener, one connection, its buffers, messages from before it | accept, send, receive, flush | reconnects, partial writes, end of stream, frames over the limit | no message is lost or reordered but at a disconnect |
| Satellite supervisor (`xwayland_satellite/`) | Disarmed, Watching, Running; sockets | arm, connect, spawn in a thread, wait, rearm through a channel | two sockets ready at once, failures of each step | a later X client is always served |
| IME bridge (`state/ime.rs`) | owner, cursor, freshness | host IME events, fcitx events, focus changes | events for an owner that is gone | preedit goes to who has the focus |
| D-Bus (`state/dbus.rs`, `emthin-dbus`) | command and notification channels, rules | two consumers drain one channel per tick | what one drains the other never sees | no notification is lost |
| Clipboard (`clipboard_bridge.rs`, `handlers/selection.rs`, `emthin-clipboard`) | origin per selection, pending transfers | host changes, client offers, pastes in both directions | owner changes between request and answer | a paste gives what was copied |
| ext-workspace (`protocols/workspace.rs`) | per client: handles, last snapshot, requests | bind, refresh by diff, requests | a request for a workspace that goes in the same tick | each client sees the workspaces there are |
| Emacs side (`elisp/`) | frame and workspace tables, queue of new frames, last geometries | handlers of the messages, hooks of Emacs | pairing frames with messages by order alone | frame and workspace belong together |
| Rendering, mirrors on screen, cursor, grabs, activation, start-up | caches | | arithmetic, drawing | out of scope, see below |

Everything but the satellite's spawner thread, the D-Bus router's thread and
the children runs in one thread, so the interleavings that matter are those of
events between ticks and of the order of steps within one.

## Modules

| Module | Contents |
|---|---|
| `Workspaces` | the core: event loop, workspaces, frames, apps, dialogs, focus, requests; its properties; the mapping to `EmacsView` |
| `EmacsView` | abstract: what Emacs is told about apps and workspaces |
| `MCWorkspaces` | symmetry, state constraints and a fair restricted specification for TLC |
| `IpcServer` | the transport between compositor and Emacs: listener, connection, buffers, kernel, the other end |
| `MessageStream` | abstract: what the transport promises of the stream of messages |
| `DisplayClaim` | compositors claim X11 display numbers by lock files and sockets |
| `XwlsWatch` | the supervisor of xwayland-satellite: main loop, spawner thread, rearm channel |
| `Xwayland` | composes the two: the compositor that has its display runs the supervisor |
| `FcitxRouter` | the D-Bus bridge's threads: filter, routing table, registry, commands |
| `ImeBridge` | who owns the host's input method, and where its caret is |
| `InputMethods` | composes the two through their channels and the tick |
| `MCInputMethods` | calls, rules, texts and budgets for TLC |
| `Selection` | the elements of a sequence that belong to a set, which transport and input methods use |
| `ClipboardHost` | what the clipboard backends share, and the fallback chain |
| `WaylandClipboard`, `X11Clipboard` | the backends, each with the host as its environment |
| `HostClipboard` | the compositor's routing, composed with whichever backend init() found |
| `Workspaces_proofs`, `Xwayland_proofs`, `IpcServer_proofs`, `InputMethods_proofs`, `HostClipboard_proofs`, `Agreement_proofs` | theorems and proofs; the last is about the clipboard's two sides |
| `Selection_proofs`, `FcitxRouter_proofs` | lemmas the others use: induction over sequences, the sorted routing table |

The parts are composed where the code composes them through state they share;
between `Workspaces` and the others nothing is shared but what the environment
of each may do at any time (Emacs sends requests, connects and leaves; the focus
moves; workspaces are switched).

### How `Workspaces` corresponds to the code

`phase` is the place in the event loop. In `"dispatch"` anything the
environment may do can happen, in any order and number: `ClaimMain`,
`NewFrame`, `NewClient` (the three branches of `new_toplevel`), `Die`,
`Commit`, `TimerElapses`, `Click`, `WakeUp`, `HostFocusLeave`,
`HostFocusEnter`, `Redraw`, `Relayout` (the host resizes the window).
`StartTick` begins `event_loop_tick`, whose steps are the phases `toplevels`, `apps`, `actions`, `dead`, `reapApps`,
`reapDialogs`, `ipc` and `timeout`, in the order `tick.rs` calls them. Steps of
the tick that touch nothing modelled (clipboard, IME, ext-workspace refresh)
have no phase. Batches (pending toplevels, ext-workspace requests, IPC
messages) are handled one element per action, and nothing of the environment
comes in between, because nothing does in the program.

| Code | Model |
|---|---|
| `active_space` / `emacs.surface`, swapped with `inactive[id]` | `space[w]`, `frame[w]` for every `w`; `active` names the swapped one |
| window id | the toplevel itself (ids are never reused, a toplevel registers once) |
| `AppWindow` | `app[c]`: `ws`, `placed` (geometry is Some), `pend` (pending geometry: none, waiting, due), `visible`, `mirror` |
| `surface.parent()`, `wants_floating` | free choices between `KeepChildFrame` and `CreateWorkspace`, `PromoteDialog` and `RegisterApp` |
| `inactive.keys().next()` of a hash map | any remaining workspace |
| `loop_signal.stop()` | `stopping`; the loop ends after the tick's last step |
| messages sent to Emacs | `toldApps`, `toldWs`, `toldActive`: what the messages so far add up to |

Abstractions and assumptions:

- Rectangles are placed or not; invalid sizes are refused by the code before
  anything changes, so such requests are not enumerated.
- One mirror view per app (the code has a map of views that do not interact).
- The first toplevel is Emacs (the code's own assumption), an output exists,
  and detection is on (`EMTHIN_DISABLE_EMACS_DETECTION` unset).
- A toplevel's role and surface die together.
- smithay is external: whether the seat forgets a dead focus target is a free
  choice (`FocusAfterDeath`), and `Space::refresh` drops dead windows
  (`Redraw`).
- A click can hit whatever is mapped and alive in the Space shown, but for
  what the workspace's own frame covers (`Covered`): it fills the output, and
  the other Emacs toplevels of the Space (child frames, and frames that a batch
  left behind) were lowered beneath it. A resize of the host lowers the own
  frame of each workspace beneath those that are there; `over` remembers which
  (`Relayout`), for good, as no
  Emacs toplevel is mapped a second time in the same Space otherwise. Only these
  matter in it: any app and dialog can be hit at any time.
- `cleanup_dead_dialogs` meets dead Emacs toplevels too, although its comment says
  that only dialogs are left dead in a Space (`dialogs.rs:80-83`). The code and the
  model handle them alike.
- Pointer focus, popups, layer surfaces, IME, cursor and clipboard are left out,
  with their resets on a switch.
- A client that asks to remove a workspace that is gone gets its
  `WorkspaceDestroyed` sent to Emacs a second time. The view of Emacs as a set
  of ids does not change, and the model does not count messages.

### How `IpcServer` corresponds to the code

| Code | Model |
|---|---|
| `IpcServer { connection, pending }`, `IpcConn { write_buf, read_buf }` | `connection`, `pending`, `writeBuf`, `readBuf` |
| `poll_accept` from the listener's source | `Accept`, `AcceptFails` (`IpcConn::new` fails) |
| `send`, `recv_all`, `flush` | `Send`, `RecvAll`, `Flush`; a tick is receive, then flush |
| Unix sockets | `toEmacs`, `toServer`: what the kernel holds, `SocketRoom` halves towards Emacs |
| `emthin-ipc.el`: connect, sentinel, filter, jsonrpc's writes | `Connect`, `Leave`, `NoticeClose`, `Read`, `WriteHeader`, `WriteBody` |

A frame is a `Content-Length` header and a body, and is split there only: a
frame cut anywhere is as incomplete as one cut between the two. JSON is reduced
to the three outcomes the code tells apart: a request that parses, one that is
refused, and one over `MAX_MSG_SIZE`. A second connection replaces the first,
as in the code. The messages that a connection holds are those whose bodies are
there (`Bodies`, `Completed`, both by `Selected`). Closing a socket drops what its reader had not read. A
connection that Emacs has already closed when it is accepted is taken, and with
it the messages that were pending; the model has this because the code does
(the result of the first flush is ignored).

### How `DisplayClaim`, `XwlsWatch` and `Xwayland` correspond to the code

`DisplayClaim` makes one step of each system call of `open_display_sockets` and
`DisplayLockGuard` (`sockets.rs`): `Create`, `WritePid` and `WriteFd`
(`try_create_lock`), `Judge` (`is_stale_lock`), `UnlinkLock`, `UnlinkPath`,
`Recreate` (`reclaim_stale_display`), `BindAbstract`, `UnlinkStale`, `BindPath`,
`DropLock` and `Exit` (the guards), `NextSlot`. Files are named by path, so
that an unlink hits whatever is there by then. Any number of compositors take
these steps in any order, and `Crash` at any. At the start, locks and sockets
of compositors that have crashed may lie about. Process ids are not reused, and
the abstract socket is the Linux one.

In `XwlsWatch`, `state` is `WatchState`, `sources` the event loop's sources,
`spawner` the thread (`spawn_and_wait`), `channel` the rearm channel. Each call
that can fail fails at most `MaxFaults` times. `terminal` records a failure
after which the code, by its own log messages, tries nothing else: a watch that
cannot be installed, or sockets that cannot be drained on a rearm. X11 clients
connect through either socket; the satellite inherits both.

### How `FcitxRouter`, `ImeBridge` and `InputMethods` correspond to the code

| Code | Model |
|---|---|
| `handle_client_message`, the filter of each client's connection | `Deny`, `AnswerFcitx`, `PassToConnection`, `Forward` and `BusAnswers` |
| `RoutingTable` and its mutex, held across the call to the bus | `table`, `held` |
| `handle_bridge_command` in the command thread | `AddRule`, `RemoveRule`, `ListRules`, `RelayCommit`, `RelayPreedit`; `worker` dies of the panic in `build_preedit_chunks` |
| `struct ImeBridge` | the record `ime`: owner, cursor, whether it is real, snapshot, settle window, cache, focused |
| `on_focus_changed`, `reset_on_workspace_switch`, `set_owner`, `report_*`, `sync_to_winit`, `on_host_ime_event` | `FocusOn`, `Reset`, `SetOwner`, `ReportDbus`, `ReportTip`, `Sync`, `HostEvent` |
| the two drains of the notification channel | `TakeEvents`, `TakeRest`; each drops the other's kind |
| `drain_fcitx_events` | `HandleEvent`, one event of `batch` at a time |
| `poll_tip_freshness` | `EventsHandled`, once `batch` is empty |

`half` is where the tick is: before the fcitx events (`"events"`), at them
(`"handling"`), or before the second drain (`"rest"`). The main thread does
nothing else until it is back at `"events"`; the threads of the router go on
meanwhile, and so does the time a caret has to settle (`Time`), which the code
compares with the clock in the middle of a tick.

`SwitchWorkspace` resets the bridge and then sets the focus, as the code does.
If the target has the keyboard already, smithay reports no change (external), so
that nothing follows the reset; `forgotten` records that. Three more histories
belong to the properties alone: `reported`, the carets that text inputs have
reported since the last switch, `sent`, those that the router has sent since then
(written when it sends them, `Noted`, not when the tick handles them), and `late`,
those that were still in the channel at the switch (`Switch`).

Rules match by equality or wildcard (globs only widen this), rectangles are
model values, a caret in the window is a rectangle and the origin it was
translated by. Surfaces do not die in this model: `Workspaces` has deaths and
the focus that follows them, which arrives here as `FocusChanged`. Message
copies that fail, the isolated daemon's start and the shutdown at exit are left
out. What the code does and one may not expect is in the model as it is:

- `handle_client_message` makes an allocator per call, so that every
  `CreateInputContext` gets the same path, and contexts of different
  applications are not told apart (`Allocate`), although a test of the
  allocator is named after the opposite. Text for one application's context goes to
  the one that created a context last.
- A late binding between a focus change and the next sync sends no `enter` if
  the bridge is the owner's already; `set_owner` with the same context keeps a
  stale origin; the caret of a text-input owner is not recomputed when its
  window moves.
- Every focus change takes the bridge from an owner by D-Bus, although the
  comment on `on_focus_changed` speaks of independence from the keyboard's
  focus.
- A switch resets the bridge before it moves the focus, so that the surface
  left behind is not told to leave (`Reset` before `FocusOn`); and if the focus
  does not move, the bridge does not learn who has it (`forgotten`),
  although `focused_surface` is described as the surface that has the keyboard
  (`ime.rs:108-110`). A text input bound meanwhile is not late-bound. A click on a
  stray frame and then a switch to its workspace gets there (see `stray_frame`).
- The events in the channel stay there over a switch and are handled after it
  (`late`): translated by the origin of the app focused now, and cached, although
  the switch clears the cache so that none of "an unrelated app" is replayed
  (`ime.rs:424-426`).
- After the command thread has panicked, the registry's mutex is poisoned and
  the next `CreateInputContext` takes the process down (`"aborted"`).

### How `ClipboardHost`, the backends and `HostClipboard` correspond to the code

| Code | Model |
|---|---|
| `init(hints)` | `InitBackend`: the first of the chain that the host supports |
| `ClipboardEvent` and `take_events` | `events` |
| the backend's connection, both ways | `toHost`, `toEmthin` |
| `suppress_clipboard` | `suppress` |
| `clipboard_source`, `clipboard_offer`, `latest_serial` | `source`, `offer`, `serial` |
| `our_clipboard_mimes`, `pending_converts`, `outgoing_requests` | `ours`, `pending`, `outgoing` |
| `SelectionState::clipboard_origin`, smithay's seat selection | `origin`, `seat` |
| `new_selection`, `send_selection` | `ClientCopy`, `ClientClear`, `ClientPaste` |
| `handle_clipboard_event` | `HandleChanged`, `HandleCancelled`, `HandleRequest` |
| `register_outgoing_pipe` | `PipeEnds` |

A copy stands for its types and its data; a paste is a descriptor, and `got`
tells what was written to it before it was closed. The primary selection runs
the same code on variables of its own and is left out. An offer and its types
arrive with the selection event they precede. The host is external: it answers
requests in order, a set from a window without focus may be ignored, and a clear
when there is no selection may be left without an echo, as wlroots does
(`HostSets`; `unechoed` records it over data-control); an X server announces every set. `ClientClear`
clears the host whatever the seat has, nothing included. `ClientSourceGone` is the
end of a client that owns the selection: smithay empties the seat and does not
call `new_selection`, so that the origin and the host stay as they are. INCR
transfers towards us have one chunk of data and the empty one. Left out:
`clipboard_cache`, which nothing sets; `handle_outgoing_property_delete`, which
waits for events that are never selected on a requestor's window (a large paste
by an X11 requestor ends with its first header, "part" in the model); the
`intern_atom` round trips outside dispatch. Behaviour of the code that the
properties therefore exclude by name:

- Changes that cross: the host copies while a request of ours is on its way.
  The echo counter then swallows the host's change and lets our echo through
  (`crossed`).
- A copy made while Emacs is not connected is not announced (`apart`), yet is
  what a host that pastes an earlier copy is given. Nor is the host told that
  the client which owned the selection has gone: it keeps a source of ours with
  nobody behind it, whose pastes are dropped (`apart`).
- A clear that the host does not echo leaves the counter above 0, and the next
  copy of the host is swallowed in its place (`unechoed`), although the counter is
  "decremented when the corresponding echo event arrives"
  (`data_control.rs:190-192`).
- Over X11, our own echoes are recognised by their owner and do not count the
  counter down, which was counted up: after a copy inside emthin the next one
  of the host is swallowed. `AgreeOnceQuiet` is about data-control only.
- Over X11 a refused conversion is looked up under the property `NONE` and
  never found: the descriptor stays open until another conversion displaces it
  (`refused`).
- Over wl_data_device, `set_host_selection` without a serial says it defers and
  drops the copy (`apart`).

## What is checked

| Run | Instance | States | Properties |
|---|---|---|---|
| `apps` | 2 frames, 1 client, 2 workspaces, host keeps the size | 2.9 M | `TypeOK`, `EmacsViewAgrees`, `FocusAtHome`, `VisibleAppsShown`, `AffinityAfterSwitch` |
| `frames` | 3 frames, 1 client, 3 workspaces; either host keeps focus and size and there are no mirrors, or nobody dies and no app is placed | 2.8 M | `FocusAtHome`, `FrameMapped`, `StopOnlyWhenAllDead`, `EmacsViewSpec` |
| `liveness` | 2 frames, 1 client, 2 workspaces, both policies, host keeps focus and size, no mirrors, fair | 0.4 M | `DeadFrameReaped`, `LastFrameStops`, `GeometrySettles` |
| `ipc` | 2 messages, 2 requests, 2 connections, 3 halves of a frame in the socket, fair | 135 k | `NothingLostOnTheWay`, `OneWay`, `RequestsInOrder`, `StreamSpec`, `ParkedBytesArrive`, `RequestsDispatched` |
| `xwayland` | 2 compositors, 2 displays, 2 clients, each call fails twice at most, fair | 82 k | `DisplayExclusive`, `LookedAfter`, `NeverBoth`, `ClaimEnds`, `ClientAnswered`, `WatchComesBack` |
| `ime` | 2 D-Bus clients, 2 context paths, 2 rules besides the built-in one, 2 surfaces, 2 host events, fair | 124 k | `CursorFromOwner`, `OwnerHasKeyboard`, `HostAreaKnown`, `DbusOwnerWantsIme`, `DenyIsFinal`, `BestRuleWins`, `CallAnswered`, `FocusedClientGetsIme` |
| `clipboard` | each backend and none, 1 copy and 1 owner at each side, 2 pastes of clients, 1 of the host, 2 things on the way, 1 echo counted by clears, fair | 480 k | `TypeOK`, `OriginNamesOwner`, `AgreeOnceQuiet`, `NotifiedOnce`, `PasteAnswered`, `HostPasteAnswered` |
| `late_commit` | as `liveness`, one policy | violation | `AffinityHolds` |
| `stray_frame` | 3 frames, 1 client, 3 workspaces, host keeps the focus | violation | `FocusOnOwnFrame` |
| `display_race` | 2 compositors, 2 displays | violation | `StaleLockIsNobodys` |
| `preedit` | as `ime`, with calls enough to focus and type | violation | `PreeditRelayed` |
| `clip_echo` | wl_data_device only, 1 of each | violation | `EchoStaysOut` |

What the properties say:

- `EmacsViewAgrees`: after every step, what the messages add up to is what
  there is.
- `FrameMapped`: a live frame is mapped in its own workspace's Space.
- `FocusAtHome`: an Emacs toplevel that lives and is the focus, or in the
  host's saved slot or WakeUp's, is mapped in the Space shown. This is the
  "Alt+Tab-away, workspace-switch, Alt+Tab-back" sequence that comments in
  `state/mod.rs` worry about. That such a toplevel is of the workspace shown
  would be more, and is false: see `stray_frame`.
- `StopOnlyWhenAllDead`: the loop ends for want of frames only when all are dead.
- `VisibleAppsShown`: an app of the active workspace that is alive, visible and
  settled is mapped. It holds where `by_workspace_affinity` is the only policy;
  under `manual`, Emacs has to repair by hand what a late commit displaced, so
  the runs that check it offer that policy alone.
- `AffinityAfterSwitch`: a switch leaves exactly the target's apps mapped.
- `EmacsViewSpec`: the specification implements `EmacsView`. `usedApps` is
  mapped to the toplevels that have been classified, `usedIds` to
  `1 .. nextWs - 1`.
- `DeadFrameReaped`, `LastFrameStops`, `GeometrySettles`: see Fairness.

Of the transport:

- `NothingLostOnTheWay`: on a connection both ends hold, what Emacs has
  received, what the kernel holds and what is queued add up to the greeting and
  a run of messages without a gap, up to the last one; without a connection the
  same holds of what is pending.
- `OneWay`: messages are held back only without a connection, buffers belong to
  the one in use, and that one has never been closed.
- `RequestsInOrder`, `RequestsDispatched`: what is dispatched is a prefix of
  what Emacs wrote, and all of it gets there unless the connection ends.
- `StreamSpec`: the transport implements `MessageStream`, a stream that is cut
  at disconnects and loses nothing but at a cut. `link` is mapped to the
  connection, `transit` to what is in buffers and kernel (`Transit`).
- `ParkedBytesArrive`: what `EAGAIN` left in the buffer arrives with the next
  flush, or a connection ends.

Of X11 support:

- `DisplayExclusive`: two live compositors never hold the same display, although
  a lock can be stolen (see `display_race`).
- `ClaimEnds`: nobody waits for another one's lock.
- `LookedAfter`, `NeverBoth`: someone looks after the sockets, unless a failure
  was terminal, and never two at a time.
- `ClientAnswered`, `WatchComesBack`: an X11 client does not stay in the queue;
  each exit of a satellite is followed by a watch on both sockets.

Of input methods:

- `CursorFromOwner`: the caret the bridge takes for real is the owner's. The
  owner's text input has reported it since the last switch, or the router has
  sent it for the owner's path since then, or it was in the channel at the switch.
  A path, not an application: two may share one. And not since the switch alone:
  events in the channel outlive it.
- `OwnerHasKeyboard`: the bridge knows who has the keyboard, and the owner by
  text-input is the one; or the last switch has left the bridge without an owner
  by text-input and ignorant of the focus (`forgotten`).
- `DbusOwnerWantsIme`: of the owner by D-Bus, the last event that the compositor
  has handled is not that it lost the focus. It says nothing of events still in the
  channel.
- `HostAreaKnown`: the host's input method is never allowed without a caret.
- `DenyIsFinal`: no call that the table denies is at the bus, whatever rules
  come meanwhile. `BestRuleWins`: a call is treated as the first rule by
  priority and specificity says.
- `CallAnswered`: each call of a D-Bus client gets an answer, unless the router
  has died. `FocusedClientGetsIme`: a client that binds text-input before or
  after it gets the keyboard gets the host's input method, unless a switch has
  made the bridge forget the focus.

Of the clipboard:

- `OriginNamesOwner`: the origin by which pastes are routed names who has the
  data; without it a paste goes to somebody who has nothing to write.
- `AgreeOnceQuiet`: when nothing is on its way, seat and host have the same
  selection; the echo counter has swallowed our echoes and nothing but them.
  This holds unless changes have crossed, the host was not told what became of
  the clients' selection, or it has left a clear of nothing without an echo.
- `NotifiedOnce`: an X11 requestor gets one `SelectionNotify`, although pipe,
  event and request each can end the transfer.
- `PasteAnswered`, `HostPasteAnswered`: nobody who pastes is left waiting on a
  descriptor.

The exceptions that these properties name (`crossed`, `apart`, `unechoed`,
`refused`, `forgotten`, `terminal`) are explained with the modules above.

Bounds. `MaxWs` caps `next_id`; a workspace that is destroyed uses up its id, so
with 3 ids a run sees creation after destruction. Two frames are the least for
a switch, three for a batch of two new frames and for a fallback that has to be
chosen. One client is enough for the properties about apps, which speak of one
app at a time and of the Spaces it is in; that two apps do not interfere is
covered by the proofs, which hold for any number. `HostKeepsFocus`,
`HostKeepsSize` and `NoMirrors` cut the host's focus changes, its resizes where
they would lift a frame, and mirrors from the runs whose properties do not depend
on them; `apps` has the first and the last, `frames` the first two. A frame left behind by a batch takes three frames,
which is out of reach together with all that `apps` does. `frames` therefore
explores two sides and what passes between them (`FramesOrFocus`): every fate of
three frames without changes of the host's focus and size, and every change of
frames, workspaces, focus and size without deaths and requests for geometry
(`FocusOnly`). `CHECK_DEADLOCK FALSE`
stands in every configuration because the compositor really ends, and the
bounded environments do.

`MaxMsgs`, `MaxReqs` and `MaxConns` are the lengths of the histories: with two
connections a message can be sent before, on, between and after connections,
and the second one can replace the first. `SocketRoom = 3` is odd so that a
full socket cuts a frame in two. `MaxFaults = 2` allows a failure in each of two
attempts, or both at once. Two displays let one who loses a race go on to the
next. `Budgets` of `ime` bound what clients, Emacs and the focus do in one
behaviour; each budget is spent on what one of the properties needs (two calls
and a rule, three calls, three focus changes and three carets), since their
product is out of reach. `MaxEchoes` bounds the counter where a client clears
again and again, which nothing else does: with 1 a clear is made when no echo is
due, and everything else, a copy that counts a second echo included, goes on while
its own is due or for ever missing. With 2, a clear while another is on its way,
the invariants hold as well, but the run takes too long with the
liveness properties. `InFlight = 2` lets a change of the host cross one of
ours, and a request meet a change. Two pastes of clients are needed for one to
displace the other's conversion.

Fairness. `WF(Tick)`: calloop iterates and each step of a tick terminates. The
loop runs without a timeout (`main.rs:158`), no timer is registered and the
IPC connection is not polled, only its listener is; what makes iterations
follow one another is that every redraw asks for the next (`winit.rs:283-293`).
The assumption is therefore one about the host as well: it delivers the redraws
it is asked for. A host that stops, say for a hidden window, suspends requests
and the 100 ms timeout until some other event wakes the loop.
`SF(TimerElapses(c))`: time passes for an app with a pending geometry even
though other events keep coming; the model counts an age of 100 ms in
`"dispatch"` only, so the action is enabled again and again rather than
continuously. Nothing is assumed of clients, Emacs or the user. Two liveness
properties therefore name who can prevent them, and are violated without that
clause: whoever activates a workspace again and again can keep one whose frame
is dead (the active one is left first and destroyed a tick later, if it still
is inactive then), and an Emacs that keeps sending geometries restarts the
100 ms each time.

`IpcServer`: `SF(Accept \/ AcceptFails)`, because the listener is level-triggered
and a backlog that is drained by Emacs' leaving may come again; weak fairness of
`RecvAll` and `Flush`, which every tick does; a running Emacs reads what arrives
and notices an end. Emacs need not write or connect. `Xwayland`: a compositor's
next call is made, since no call of the claim waits for anything, main loop and
thread keep running, a satellite accepts who waits; nothing is assumed of crashes,
failures or clients. `InputMethods`: weak fairness of the tick's steps (`Tick`)
and of both threads, that is of `StartServer`, `Work` and each client's `Filter`
(the bus answers by its timeout at the latest), strong fairness of `Sync` and
`HostEvent`, which are dispatched between ticks only and so are enabled again
and again. `HostClipboard`: ticks and dispatches follow one
another, the host answers what it was sent, a client that is asked for its
selection writes it or dies, and a pipe ends.

## What the violations show

`late_commit`. `docs/migration-policy-design.md` promises, for
`by_workspace_affinity`, that an app with `workspace_id != active_id` is
unmapped from `active_space`. `CompositorHandler::commit` maps the window into
`active_space` whichever workspace the app belongs to. Set a geometry, switch,
let the client commit: the app appears in a workspace it does not belong to,
until the next switch to that workspace. The timeout path (`tick.rs`) looks up
the app's own workspace instead. `ipc_promote_mirror` has the same pattern.

`display_race`. `try_create_lock` creates the lock file and writes the process
id in a second call. A compositor that reads the file in between finds it empty,
which `is_stale_lock` takes for "a corrupt leftover that no live process
considers its own" (its comment), and unlinks a live owner's lock. The abstract
socket keeps the two apart all the same (`DisplayExclusive`, proved); the owner
is left without lock file and, if the other one goes on, without its path.

`preedit`. `build_preedit_chunks` (`emthin-dbus/src/fcitx.rs`) indexes the
text's graphemes at `begin.min(len)`: with the caret at the end of the text, where
it is while one types, that is out of range. The command thread panics, and later
text of any context is lost, against what `winit.rs:302-304` promises.

`stray_frame`. `state/workspace.rs` begins with "each Emacs frame = one
workspace". `process_pending_toplevels` unmaps a drained frame from the Space that
is active then; of two that arrived in one batch the second is drained after the
switch to the first one's workspace, and stays mapped in the Space it arrived in,
beside its own. It lies beneath that Space's frame until the host resizes the
window: `resize_emacs_in_space` lowers the own frame beneath all else. A click from
an app then gives the keyboard to a frame whose workspace is not shown.

`clip_echo`. `suppress_clipboard` is commented as the number of echoes to
suppress, one for each selection set. `wl_data_device` announces the selection
again at every return of the focus, as `docs/clipboard-protocols.md` says: the
client's own copy then counts as one of the host's, replaces the client's source,
and a paste on either side gets nothing.

## What is proved

`Workspaces_proofs` proves, for every value of the constants that satisfies
`ConstantsAssumption` (disjoint sets of toplevels, `MaxWs` positive, markers
outside the sets):

| Theorem | Statement |
|---|---|
| `TypeCorrect` | `Spec => []TypeOK` |
| `ViewCorrect` | `Spec => []EmacsViewAgrees` |
| `FramesDistinctCorrect` | `Spec => []FramesDistinct` |
| `FrameMappedCorrect` | `Spec => []FrameMapped` |
| `FocusCorrect` | `Spec => []FocusAtHome` |
| `StopCorrect` | `Spec => []StopOnlyWhenAllDead` |
| `AffinityCorrect` | `Spec => AffinityAfterSwitch` |
| `VisibleCorrect` | `Spec => []VisibleAppsShown`, if `Policies` has no other policy than `by_workspace_affinity` |
| `EmacsViewImplemented` | `Spec => EmacsViewSpec` |

The argument. `TypeOK` and `FocusAtHome` are inductive by themselves: each step
that unmaps a frame or shows another Space takes focus and slots along.
`FrameMapped` and `FramesDistinct` are not: `CreateWorkspace` unmaps a frame from the active
Space and makes it the frame of a new workspace, which would hurt if that frame
already were another workspace's. `FrameInv` says it is not: ids not in use
have no frame (`IdsFresh`), a toplevel is the frame of one workspace at most
(`OneOwner`), one that is pending is pending once and nobody's frame
(`PendingOnce`), and one not yet created is neither (`UnbornUnknown`).
`StopOnlyWhenAllDead` needs to know that between `detect_dead_workspaces` and
the end of the loop no workspace can appear or come alive (`StopInv`, by
phase). The refinement needs `QueueInv`: a client's toplevel waits for
classification once, so `usedApps` only grows. `VisibleAppsShown` is inductive
once the policy is known to be constant; the interesting steps are those that
migrate, hide or settle an app, and the switch, where `SyncedSwitch` shows that
the affinity pass maps every app of the target.

The other proof modules:

| Theorem | Statement | Module |
|---|---|---|
| `TypeCorrect` | `Spec => []TypeOK` | `IpcServer_proofs` |
| `OneWayCorrect` | `Spec => []OneWay` | `IpcServer_proofs` |
| `NothingLostOnTheWayCorrect` | `Spec => []NothingLostOnTheWay` | `IpcServer_proofs` |
| `RequestsInOrderCorrect` | `Spec => []RequestsInOrder` | `IpcServer_proofs` |
| `StreamCorrect` | `Spec => StreamSpec` | `IpcServer_proofs` |
| `DisplayExclusiveCorrect` | `SpecXwayland => []DisplayExclusive` | `Xwayland_proofs` |
| `LookedAfterCorrect`, `NeverBothCorrect` | `SpecXwayland => []LookedAfter`, `[]NeverBoth` | `Xwayland_proofs` |
| `TypeCorrect` | `Spec => []TypeOK` | `InputMethods_proofs` |
| `DenyIsFinalCorrect` | `Spec => []DenyIsFinal` | `InputMethods_proofs` |
| `BestRuleWinsCorrect` | `Spec => []BestRuleWins` | `InputMethods_proofs` |
| `OwnerHasKeyboardCorrect` | `Spec => []OwnerHasKeyboard` | `InputMethods_proofs` |
| `CursorFromOwnerCorrect` | `Spec => []CursorFromOwner` | `InputMethods_proofs` |
| `HostAreaKnownCorrect` | `Spec => []HostAreaKnown` | `InputMethods_proofs` |
| `DbusOwnerWantsImeCorrect` | `Spec => []DbusOwnerWantsIme` | `InputMethods_proofs` |
| `ClipboardTypeCorrect` | `Spec => []TypeOK` | `HostClipboard_proofs` |
| `NotifiedOnceCorrect` | `Spec => []NotifiedOnce` | `HostClipboard_proofs` |
| `OriginNamesOwnerCorrect` | `Spec => []OriginNamesOwner` | `Agreement_proofs` |
| `AgreeOnceQuietCorrect` | `Spec => []AgreeOnceQuiet` | `Agreement_proofs` |

So every invariant, every action property and both refinements that a passing
run checks on a small instance are proved for every value of the constants.

### From which assumptions

All are `ASSUME`s of the modules that declare the constants, and none bounds a
set: `ConstantsAssumption` of `Workspaces`, `IpcServer` and `DisplayClaim` (kinds of
things are disjoint, `None` is none of them, bounds are numbers, a kernel buffer
has room for something); `WatchAssumption` (the supervisor is one of the
compositors and failures are numbered); `FirstPathAssumption` and `BuiltinAssumption` (the path the allocator
gives is a path, priorities are integers, the built-in table is sorted); `NamesAssumption`,
`CallsAssumption`, `TextsAssumption` and `BudgetsAssumption` (what clients, host and
Emacs may say is well-formed: a call that names a context names one of
`Paths`); `CopiesAssumption` and `SupportedAssumption` (copies and pastes are told
apart from `None` and `"idle"`, the host supports some of the three backends).

### Along which arguments

*Transport.* `Inv` is `Types /\ WayInv /\ FreshInv /\ NothingLost /\ ReqInv`.
`Types` adds to `TypeOK` that the kernel never holds more than it has room for
(`RoomInv`), which a short write needs. `OneWay` alone is not inductive: the next
connection accepted might have been closed before. `BacklogInv` says that what
waits to be accepted was opened, waits once, and is neither in use nor closed,
`FreshInv` that nothing has been sent on it. `NothingLost` is
`NothingLostOnTheWay` in terms of the messages produced so far; a write or a
read moves halves of frames from one end of a concatenation to the next and
leaves the whole. `ReqInv` says that on a connection still open what has been
dispatched and what is left to decode add up to what Emacs wrote, that headers and
bodies alternate in what is left (`Flow`), and that Emacs is between two frames
exactly when their number is even (`Pace`): so that dropping two halves for each
body drops whole frames. `StreamCorrect` maps each action to one of
`MessageStream` or to a stutter.

*X11.* `DisplayExclusive` rests on `SocketInv`: who
has got past the bind of the abstract socket has it, and only its owner's death
frees it; what happens to lock files does not matter. `WatchInv` lists what
sources, thread and channel can be in each `WatchState`; only a terminal failure
leaves `Running` with nobody to send the rearm.

*Input methods.* `Inv` is `RouterTypes /\ ImeInv /\ LinkInv /\ ChannelInv`, and `DenyInv` is
proved apart: it adds to `DenyIsFinal` that the call the table is locked for is
there, since a rule cannot be added while it is at the bus. `RouterTypes` contains
`Sorted(table)`: push and sort, and removal, keep a table of any length sorted,
and `find` on a sorted table returns the best of the rules that match
(`FcitxRouter_proofs`). `ImeInv` relates the bridge's record, the text-input
handle and the keyboard; its part `Sound` says that every caret taken or
remembered is known of the one it is remembered for, that is reported by its text
input or sent for its path (`Known`). `ChannelInv` says that the carets in the
channel and in the batch are known already, so that none becomes known by being
handled, and that a switch, which forgets what is known, keeps those that are in
the channel. `LinkInv` types
batch and links and holds `DbusOwnerWantsIme`: an event changes the owner and
`wantsIme` in one step, and no focus change leaves an owner by D-Bus.

*Clipboard.* `NotifiedOnce` needs `Fate`: the request of an X11 window is in the
backend's queue, in the queue of the tick or at a pipe, at one of the three at a
time and once, and it is answered where it is taken off the last. The types of
the three queues are part of the induction (`Types`). `OriginNamesOwner` and
`AgreeOnceQuiet` need, over data-control, what the queues in both directions hold
and in which order (`DataControlInv`): as long as nothing has crossed, a selection
of ours on its way excludes news of another one (`OneWay`), `suppress` is at least the
number of echoes still to come (`Enough`), and the loss of our source comes before
the news of what replaced it (`LastSource`, `Order`). That is all
`OriginNamesOwner` needs. As long as the host has echoed everything, `suppress` is
that number (`Counted`), the last news is of the host's selection (`LastNews`), and
the seat has what was asked for last, or the host's (`Follows`), which
`AgreeOnceQuiet` rests on. Over X11 and without a backend no source is ever cancelled
(`OtherInv`). Over wl_data_device both properties are silent, because there the
counter is wrong (`clip_echo`).

*Induction over data.* What a fold or a recursive function computes for every
sequence is proved from the library's theorem that a well-founded relation has
minimal elements, with a set in place of the predicate (`Selection_proofs`:
`NumberInduction`, `SequenceInduction`). `Selected` takes a set rather than a test
for that reason.

### Model-checked only

The liveness properties, which need fairness and `ENABLED`, out of the proof
system's reach: `DeadFrameReaped`, `LastFrameStops`, `GeometrySettles`,
`ParkedBytesArrive`, `RequestsDispatched`, `ClaimEnds`, `ClientAnswered`,
`WatchComesBack`, `CallAnswered`, `FocusedClientGetsIme`, `PasteAnswered`,
`HostPasteAnswered`. And, of course, the violated properties. The proofs are of
`Spec`, without fairness, and hold of the fair specifications since these only
add to it.

## Not modelled, and why

- Rendering, mirror drawing and hit testing, cursor images, pointer grabs:
  arithmetic on pixels and floating point, or drawing. What they read is modelled
  (which windows are mapped where), what they write nobody reads back.
- Activation tokens, start-up, command line, utilities: sequential, with no state
  that outlives the call.
- The ext-workspace protocol's front-end: the effects of its requests are actions
  of `Workspaces`; the diff that each client is sent feeds nothing but that
  client's view.
- The Emacs side (`elisp/`): Emacs is the environment of `Workspaces` and
  `IpcServer` and may send any request at any time in any order, which includes
  what the packages do. What their tables hold depends on Emacs's own frame and
  redisplay events, which this repository does not define.
- The wire formats of D-Bus, X11 and Wayland, smithay, the kernel, the host's
  compositor, xwayland-satellite: external, modelled by what the code relies on.
- `clipboard_cache` and the INCR deletions towards an X11 requestor: code that
  nothing reaches (see the clipboard modules).
- In the parts that are modelled: the primary selection (the same code on other
  variables), popups and layer surfaces, the isolated D-Bus daemon's start, the
  shutdown of threads and children at exit.
