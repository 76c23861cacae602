CONSTANTS
  Id <- MCId
  Fn <- MCFn
  Dummy = "DummySampler"
  None = ""
  Shaders <- MCShaders
SPECIFICATION Spec
INVARIANTS
  CombinedExact
  UnitsDistinct
  BuffersDistinct
  LocationsDistinct
