SPECIFICATION Spec
CONSTANTS
  NaN <- MCNaN
  Mode = "dry-run"
  Files <- MCFiles
  Environments <- MCEnvironments
INVARIANT DisabledMeansNoPause
CHECK_DEADLOCK FALSE
