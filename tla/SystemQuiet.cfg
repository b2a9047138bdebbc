SPECIFICATION FairSpec
CONSTANTS
  ShownTemps <- LowTemps
  ShownModes = {0, 1, 4}
  Tries = 3
  TempPresses = 4
  ModePresses = 3
  Polls = 2
  Responsive = TRUE
  Misreads = {}
  UserActive = FALSE
  MayDisconnect = FALSE
  MayPowerCycle = FALSE
  TempParams = {160, 170, 172, 175, 1450}
  ModeParams = {0, 1, 4, 9}
  Lossy = FALSE
  WaitSuffices = TRUE
PROPERTIES
  NeverPastTheTarget
  PowerFollowsTheCommand
  SetTempTakesEffect
  SetModeTakesEffect
