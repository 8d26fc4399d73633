SPECIFICATION FairSpec
CONSTANTS
  Full = 4
  PauseThreshold = 3
  ResumeThreshold = 1
  RunnableGuard = 2
  Targets <- MCTargets
  Utils <- MCUtils
  Runnables <- MCRunnables
  w1 = w1
  w2 = w2
  w3 = w3
  Workers = {w1, w2, w3}
INVARIANTS AtMostOneLateSlice
PROPERTIES PauseSettles WorkResumes WorkersExit
