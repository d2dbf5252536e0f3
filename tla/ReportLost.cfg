SPECIFICATION Spec
CONSTANTS
  w1 = w1
  w2 = w2
  Workers = {w1, w2}
  NoWorker = none
  MaxAttempts = 2
  MaxTasks = 2
  MaxCalls = 1
  MaxMishaps = 1
  Worlds <- StallWorlds
CHECK_DEADLOCK FALSE
PROPERTY StatusPersisted
