SPECIFICATION Spec
CONSTANTS
  Frames = {e1, e2, e3}
  Clients = {c1}
  XClients = {}
  Policies = {"by_workspace_affinity"}
  MaxWs = 3
  None = None
  NotSaved = NotSaved
SYMMETRY Symmetry
CONSTRAINT FramesOrFocus
INVARIANTS
  FocusAtHome
  FrameMapped
  StopOnlyWhenAllDead
PROPERTY EmacsViewSpec
\* The event loop ends for good when the compositor stops.
CHECK_DEADLOCK FALSE
