SPECIFICATION Spec
CONSTANTS
  Frames = {e1, e2}
  Clients = {c1}
  XClients = {}
  Policies = {"by_workspace_affinity"}
  MaxWs = 2
  None = None
  NotSaved = NotSaved
SYMMETRY Symmetry
CONSTRAINT HostKeepsSize
INVARIANTS
  TypeOK
  EmacsViewAgrees
  FocusAtHome
  VisibleAppsShown
PROPERTY AffinityAfterSwitch
\* The event loop ends for good when the compositor stops.
CHECK_DEADLOCK FALSE
