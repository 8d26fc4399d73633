SPECIFICATION Spec
CONSTANTS
  DefaultAttempts = 3
  AttemptOptions <- MCAttemptOptions
  Statuses <- MCStatuses
INVARIANTS RequestsBounded OutcomesExplained
PROPERTIES FetchEnds
