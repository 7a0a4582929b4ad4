SPECIFICATION Spec
CONSTANTS
  Frames = {e1, e2}
  Clients = {c1}
  XClients = {}
  Policies = {"by_workspace_affinity"}
  MaxWs = 2
  None = None
  NotSaved = NotSaved
SYMMETRY Symmetry
CONSTRAINTS
  HostKeepsFocus
  HostKeepsSize
  NoMirrors
INVARIANT AffinityHolds
CHECK_DEADLOCK FALSE
