SPECIFICATION Spec
CONSTANTS
  NaN <- MCNaN
  Mode = "dry-run"
  Files <- MCFiles
  Environments <- MCEnvironments
INVARIANTS LoadedBuilds BuiltIsSound RunsAsWritten
CHECK_DEADLOCK FALSE
