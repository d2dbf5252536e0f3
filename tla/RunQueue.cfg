SPECIFICATION Spec
CONSTANTS
  Runs = {r1, r2}
  NoRun = none
  MaxAttempts = 4
  MaxProcs = 2
  MaxCalls = 1
  MaxMishaps = 1
  Worlds <- MCWorlds
CHECK_DEADLOCK FALSE
INVARIANTS
  Exclusive
  Limit
  NotForgotten
PROPERTIES
  TerminalKept
  QueueDrains
  EntriesCleared
  Settled
