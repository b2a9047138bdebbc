SPECIFICATION Spec
CONSTANTS
  ShownTemps <- LowPair
  ShownModes = {0, 3}
  Tries = 1
  TempPresses = 1
  ModePresses = 1
  Polls = 1
  Responsive = FALSE
  Misreads = {}
  UserActive = FALSE
  MayDisconnect = TRUE
  MayPowerCycle = TRUE
  TempParams = {160, 165}
  ModeParams = {3}
  Lossy = TRUE
  WaitSuffices = FALSE
INVARIANTS
  TargetsWereRequested
