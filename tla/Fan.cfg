SPECIFICATION Spec
CONSTANTS
  NodeSeq <- Bipartite
  DependencyMap <- BipartiteDeps
  DependantMap <- BipartiteDependants
  Step <- PlainSteps
  Restored <- BipartiteStates
  ErrCodes = {"1"}
  MaxActiveSteps = 0
  HasTimeout = FALSE
  HasPreconditions = FALSE
  ExternalRetry = FALSE
  Handlers = {}
  Stoppable = FALSE
CONSTRAINT ChildrenStart
CHECK_DEADLOCK FALSE
PROPERTIES NoRelaunch
