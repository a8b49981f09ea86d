SPECIFICATION Spec
CONSTANTS
  MAX_PROCESSES = 4
  NumStacks = 2
  TickMod = 4
  Durations = {1, 2}
  MainCalls = {"create"}
  TaskCalls = {"sleep"}
  InitTasks = 0
INVARIANTS
  EaxPointsToFrame
CHECK_DEADLOCK FALSE
