CONSTANTS
  Words = 12
  Tasks <- OneTask
  Periodic = {4}
  Mqtt = 4
  Keys = {1}
  Plugins = {"P001", "P004"}
  PluginOf <- Owner
  StartDelay <- Starts
  Step <- Steps
  Intervals = {0, 3}
  Soon = 1
  PulseTimes = {2}
  MaxRun = 1
  MaxLag = 5
  MaxPokes = 2
SPECIFICATION MCSpec
INVARIANTS TypeOK DeadlinesSurviveWrap MostOverdueFirst ChainAlive
PROPERTIES ImplementsTimers KeepsPace TasksAreRead EventsAreHandled
