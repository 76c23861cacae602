SPECIFICATION Spec
CONSTANTS
  None = None
  Block <- BlockValue
  Modules <- LoweredModules
INVARIANTS
  RulesFollowed
CHECK_DEADLOCK FALSE
