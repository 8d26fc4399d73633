SPECIFICATION InspectSpec
CONSTANTS
  Lines <- MCLines
  MaxLines = 2
  Paths <- MCPaths
  Numbers = {0, 100}
  MaxWords = 3
INVARIANTS ReportSound
CHECK_DEADLOCK FALSE
