SPECIFICATION Spec
CONSTANTS Requests <- MCRequests
INVARIANTS TimedStopIsClean
CHECK_DEADLOCK FALSE
