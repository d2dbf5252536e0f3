SPECIFICATION FairSpec
CONSTANTS
  NodeSeq <- Chain
  DependencyMap <- ChainDeps
  DependantMap <- ChainDependants
  Step <- ChainSteps
  Restored <- Fresh
  ErrCodes = {"1", "2"}
  MaxActiveSteps = 0
  HasTimeout = TRUE
  HasPreconditions = TRUE
  ExternalRetry = FALSE
  Handlers = {"onInit", "onSuccess", "onFailure", "onAbort", "onExit", "onWait"}
  Stoppable = FALSE
INVARIANTS TypeOK ApprovalGate NoStranding ReportSound
PROPERTIES Termination
