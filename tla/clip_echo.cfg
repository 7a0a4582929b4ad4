SPECIFICATION Spec
CONSTANTS
  None = None
  ClientCopies = {c1}
  HostCopies = {h1}
  ClientPastes = {p1}
  HostPastes = {r1}
  InFlight = 2
  MaxEchoes = 1
  Supported = {{"wl_data_device"}}
INVARIANTS
  EchoStaysOut
CHECK_DEADLOCK FALSE
