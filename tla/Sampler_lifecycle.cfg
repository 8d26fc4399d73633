SPECIFICATION FairSpec
CONSTANTS
  MaxJiffies = 1
  MaxRegressions = 0
  c1 = c1
  c2 = c2
  Callers = {c1, c2}
INVARIANTS CallersServed
PROPERTIES DeathIsReported SamplerMoves
CHECK_DEADLOCK FALSE
