SPECIFICATION Spec
CONSTANTS
  MAX_PROCESSES = 3
  NumStacks = 3
  TickMod = 3
  Durations = {1}
  MainCalls = {"create", "sleep"}
  TaskCalls = {"sleep", "exit"}
  InitTasks = 1
INVARIANTS
  AtMostOneRunning
  FrameOfOwner
  WrongThreadOnlyInCreateWindow
PROPERTIES
  TurnApproaches
  OnlyFreeSlotsTaken
CHECK_DEADLOCK FALSE
