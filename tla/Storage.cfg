CONSTANTS
  Users = {"home"}
  Others = {"server"}
  MaxWrites = 6
  Day = 1
  DefaultController = TRUE
  MaxFaults = 2
SPECIFICATION Spec
INVARIANTS FlashIsSpared
PROPERTIES SavesAreSaved StartsWithSettings StartsUp
