SPECIFICATION Spec
CONSTANTS
  MaxJiffies = 3
  MaxRegressions = 1
  c1 = c1
  Callers = {c1}
INVARIANTS JiffiesConserved ObservationsSound
CHECK_DEADLOCK FALSE
