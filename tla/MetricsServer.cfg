SPECIFICATION Spec
CONSTANTS Requests = {q1, q2, q3}
INVARIANTS TypeOK CloseIsGraceful ReturnFreesAddress
PROPERTIES CloseReturns ContextStopsServer
CHECK_DEADLOCK FALSE
