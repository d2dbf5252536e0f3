SPECIFICATION Spec
CONSTANTS
  NoDAG = NoDAG
  NoState = NoState
  Horizon = 5
  DeletedGrace = 1
  MaxMissedRuns = 2
  MaxBufferItems = 2
  Worlds <- MCWorlds
CHECK_DEADLOCK FALSE
INVARIANTS AtMostOnce OneOffSound OneRunPerID
PROPERTIES Chronological CatchupKept OneOffRuns
