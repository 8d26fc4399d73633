SPECIFICATION Spec
CONSTANTS
  NaN <- MCNaN
  Mode = "dry-run"
  Files <- MCFiles
  Environments <- MCEnvironments
INVARIANT EveryTargetWithinBand
CHECK_DEADLOCK FALSE
