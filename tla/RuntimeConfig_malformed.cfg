SPECIFICATION Spec
CONSTANTS
  NaN <- MCNaN
  Mode = "dry-run"
  Files <- MCFiles
  Environments <- MCEnvironments
INVARIANT MalformedMeansDefault
CHECK_DEADLOCK FALSE
