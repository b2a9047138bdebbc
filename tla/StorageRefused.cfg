CONSTANTS
  Users = {"home"}
  Others = {}
  MaxWrites = 6
  Day = 1
  DefaultController = FALSE
  MaxFaults = 2
SPECIFICATION Spec
INVARIANTS ResetIsNotRefused
