SPECIFICATION FairSpec
CONSTANTS
  NodeSeq <- Pair
  DependencyMap <- PairDeps
  DependantMap <- PairDependants
  Step <- StopSteps
  Restored <- PairStates
  ErrCodes = {"1"}
  MaxActiveSteps = 0
  HasTimeout = FALSE
  HasPreconditions = FALSE
  ExternalRetry = FALSE
  Handlers = {"onAbort"}
  Stoppable = TRUE
INVARIANTS HandlersAfterSteps DepsHonoured PanicSettled
PROPERTIES StopEnds
