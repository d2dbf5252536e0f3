SPECIFICATION Spec
CONSTANTS
  NodeSeq <- Join
  DependencyMap <- JoinDeps
  DependantMap <- JoinDependants
  Step <- JoinSteps
  Restored <- Fresh
  ErrCodes = {"1"}
  MaxActiveSteps = 2
  HasTimeout = FALSE
  HasPreconditions = FALSE
  ExternalRetry = TRUE
  Handlers = {"onExit"}
  Stoppable = FALSE
INVARIANTS Bookkeeping MaxActive DepsHonoured NoStranding ReportSound
