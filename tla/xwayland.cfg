SPECIFICATION FairXwayland
CONSTANTS
  Procs = {p1, p2}
  Displays = {0, 1}
  Nobody = Nobody
  Me = p1
  Clients = {c1, c2}
  MaxFaults = 2
INVARIANTS
  DisplayExclusive
  LookedAfter
  NeverBoth
PROPERTIES
  ClaimEnds
  ClientAnswered
  WatchComesBack
CHECK_DEADLOCK FALSE
