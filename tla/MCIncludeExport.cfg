CONSTANTS
  File = {"a", "b"}
  Root = "root"
  Sources <- MCSources
SPECIFICATION Spec
INVARIANTS
  TypeOK
  IncludesStripped
  RootUndisturbed
  LoadedOnce
  OwnExportsExact
