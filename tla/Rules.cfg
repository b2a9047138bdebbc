CONSTANTS
  Words = 8
  Sets = {1, 2}
  Others = {9}
  OtherSource <- Extra
  Deletable = {1, 2, 9}
  Sources <- RuleFiles
  Conds = {"hot", "day"}
  Timers = {1}
  Inputs <- Switch
  MaxNesting = 3
  MaxLag = 1
  MaxQueue = 1
  MaxPokes = 2
SPECIFICATION Spec
INVARIANTS NestingLevelIsDepth OneBranchRuns
PROPERTIES RingsOnTime TimersRing
