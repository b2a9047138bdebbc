CONSTANTS
  Static = FALSE
  Credentials = {0, 1}
  MaxClients = 1
  MaxMoves = 3
SPECIFICATION Spec
INVARIANTS TypeOK ConnectsWithValid ReadyToRetry
PROPERTIES Reconnects AccessPointGoesOff
