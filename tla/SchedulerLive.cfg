SPECIFICATION FairSpec
CONSTANTS
  MAX_PROCESSES = 3
  NumStacks = 2
  TickMod = 5
  Durations = {1}
  MainCalls = {}
  TaskCalls = {"sleep"}
  InitTasks = 2
PROPERTIES
  ParkedUntilDeadline
  ReadyRuns
  SleepReturns
