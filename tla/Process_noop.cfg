SPECIFICATION Spec
CONSTANTS Requests <- MCRequests
INVARIANTS NoopServes
CHECK_DEADLOCK FALSE
