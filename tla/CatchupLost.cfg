SPECIFICATION Spec
CONSTANTS
  NoDAG = NoDAG
  NoState = NoState
  Horizon = 4
  DeletedGrace = 1
  MaxMissedRuns = 2
  MaxBufferItems = 2
  Worlds <- StopWorlds
CHECK_DEADLOCK FALSE
PROPERTY RunsKept
