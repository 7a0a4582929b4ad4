SPECIFICATION QuietSpec
CONSTANTS
  Frames = {e1, e2}
  Clients = {c1}
  XClients = {}
  Policies = {"manual", "by_workspace_affinity"}
  MaxWs = 2
  None = None
  NotSaved = NotSaved
PROPERTIES
  DeadFrameReaped
  LastFrameStops
  GeometrySettles
\* The event loop ends for good when the compositor stops.
CHECK_DEADLOCK FALSE
