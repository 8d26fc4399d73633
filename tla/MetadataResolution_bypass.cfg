SPECIFICATION Spec
CONSTANTS
  None = None
  Workers = {2}
  Shapes <- MCShapes
INVARIANTS InstanceBypassesMetadata
CHECK_DEADLOCK FALSE
