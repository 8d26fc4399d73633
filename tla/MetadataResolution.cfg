SPECIFICATION Spec
CONSTANTS
  None = None
  Workers = {2}
  Shapes <- MCShapes
INVARIANTS StartupSound QueriesScoped AskedSparingly WorkersFollowShape
PROPERTIES FactsSettle
CHECK_DEADLOCK FALSE
