SPECIFICATION Spec
CONSTANTS
  Full = 10
  PauseThreshold = 8
  ResumeThreshold = 6
  RunnableGuard = 3
  Enforcing = TRUE
  TargetStart = 3
  TargetMin = 2
  TargetMax = 5
  StepUp = 2
  StepDown = 1
  FallbackTarget = 3
  GoalLow = 2
  GoalHigh = 4
  RelaxedThreshold = 3
  RelaxedConfirmations = 2
  SuppressThreshold = 8
  SuppressResume = 6
  SuppressRunnableThreshold = 3
  SuppressRunnableResume = 1
  SuppressSmoothingSamples = 3
  P95s <- MCP95s
  Utils <- MCUtils
  Runnables <- MCRunnables
  MaxSuccesses = 3
INVARIANTS
  PauseInLockStep
