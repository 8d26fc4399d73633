SPECIFICATION Spec
CONSTANTS Requests <- MCRequests
INVARIANTS ExitSound WorkIsObservable
PROPERTIES StopsEnd
CHECK_DEADLOCK FALSE
