SPECIFICATION Spec
CONSTANTS
  None = None
  Block <- BlockValue
  Modules <- OnceModules
INVARIANT LogicalEquivalent
CHECK_DEADLOCK FALSE
