CONSTANTS
  Import = TRUE
  KeepAlive = 2
  SocketTimeout = 3
  MaxInterval = 6
  MaxMoves = 3
SPECIFICATION Spec
INVARIANTS TypeOK DeadBrokerNoticed ReconnectsInTime
PROPERTIES StaysConnected
