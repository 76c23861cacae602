SPECIFICATION Spec
CONSTANTS
  None = None
  Block <- BlockValue
  Modules <- LoweredModules
INVARIANTS
  ModuleClosed
  DominatorsExact
  ScopesSound
  ControlFlowPreserved
CHECK_DEADLOCK FALSE
