SPECIFICATION Spec
CONSTANTS Requests <- MCRequests
INVARIANTS LegacyModeAccepted
CHECK_DEADLOCK FALSE
