SPECIFICATION FairSpec
CONSTANTS
  MaxMsgs = 2
  MaxReqs = 2
  MaxConns = 2
  SocketRoom = 3
INVARIANTS
  NothingLostOnTheWay
  OneWay
  RequestsInOrder
PROPERTIES
  StreamSpec
  ParkedBytesArrive
  RequestsDispatched
CHECK_DEADLOCK FALSE
