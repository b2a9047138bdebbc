SPECIFICATION Spec
CONSTANTS
  ShownTemps <- EdgeTemps
  ShownModes = {0, 3}
  Tries = 2
  TempPresses = 2
  ModePresses = 2
  Polls = 1
  Responsive = FALSE
  Misreads = {250}
  UserActive = FALSE
  MayDisconnect = FALSE
  MayPowerCycle = TRUE
  TempParams = {255, 262}
  ModeParams = {0, 3}
  Lossy = FALSE
  WaitSuffices = TRUE
INVARIANTS
  TypeOK
  ServedIsCurrent
  KeysServeTheCommand
PROPERTIES
  ImplementsService
