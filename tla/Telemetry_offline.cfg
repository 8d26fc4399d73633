SPECIFICATION TelemetrySpec
CONSTANTS
  Full = 3
  PauseThreshold = 3
  ResumeThreshold = 2
  RunnableGuard = 3
  Enforcing = TRUE
  TargetStart = 2
  TargetMin <- MCMin
  TargetMax = 4
  StepUp = 1
  StepDown = 2
  FallbackTarget = 2
  GoalLow = 2
  GoalHigh = 4
  RelaxedThreshold = 3
  RelaxedConfirmations = 1
  SuppressThreshold = 0
  SuppressResume = 0
  SuppressRunnableThreshold = 3
  SuppressRunnableResume = 1
  SuppressSmoothingSamples = 0
  P95s <- MCP95s
  Utils <- MCUtils
  Runnables <- MCRunnables
  MaxSuccesses = 1
  Offline = TRUE
  TargetDelta = 2
  HostDelta = 2
  P95Delta = 2
INVARIANTS EpochZeroWhileOffline
CHECK_DEADLOCK FALSE
