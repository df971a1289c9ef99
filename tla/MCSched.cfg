CONSTANTS
  LastProc = 3
  IntTasks = {0}
  InitProc = 3
  Priority <- MCPriority
  MaxNested = 2
SPECIFICATION FairSpec
INVARIANTS
  RunningIsReady
PROPERTIES
  RoundsAreUsedUp
  NoStarvation
