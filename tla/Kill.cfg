SPECIFICATION StubbornSpec
CONSTANTS
  NodeSeq <- One
  DependencyMap <- OneDeps
  DependantMap <- OneDeps
  Step <- PlainSteps
  Restored <- Fresh
  ErrCodes = {"1"}
  MaxActiveSteps = 0
  HasTimeout = FALSE
  HasPreconditions = FALSE
  ExternalRetry = FALSE
  Handlers = {}
  Stoppable = TRUE
PROPERTIES StopReachesProcesses
