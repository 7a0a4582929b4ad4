SPECIFICATION Spec
CONSTANTS
  Frames = {e1, e2, e3}
  Clients = {c1}
  XClients = {}
  Policies = {}
  MaxWs = 3
  None = None
  NotSaved = NotSaved
SYMMETRY Symmetry
CONSTRAINTS
  HostKeepsFocus
  NoMirrors
INVARIANT FocusOnOwnFrame
CHECK_DEADLOCK FALSE
