SPECIFICATION Spec
CONSTANTS
  Names = {1, 2, 3, 4}
  Requests <- MCRequests
CHECK_DEADLOCK FALSE
INVARIANTS CycleCheck RetryExact
PROPERTIES Termination
