SPECIFICATION FairSpec
CONSTANTS
  ShownTemps <- EdgeTemps
  ShownModes = {0, 1}
  Tries = 1
  TempPresses = 1
  ModePresses = 1
  Polls = 1
  Responsive = FALSE
  Misreads = {}
  UserActive = FALSE
  MayDisconnect = TRUE
  MayPowerCycle = TRUE
  TempParams = {260}
  ModeParams = {0}
  Lossy = FALSE
  WaitSuffices = FALSE
INVARIANTS
  ReadingIsDecoded
PROPERTIES
  ReadingsSettle
  FlagsAreLowered
