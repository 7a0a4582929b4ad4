SPECIFICATION FairSpec
CONSTANTS
  None = None
  ClientCopies = {c1}
  HostCopies = {h1}
  ClientPastes = {p1, p2}
  HostPastes = {r1}
  InFlight = 2
  MaxEchoes = 1
  Supported = {{"data_control", "wl_data_device"}, {"wl_data_device"}, {"x11"}, {}}
INVARIANTS
  TypeOK
  OriginNamesOwner
  AgreeOnceQuiet
  NotifiedOnce
PROPERTIES
  PasteAnswered
  HostPasteAnswered
CHECK_DEADLOCK FALSE
