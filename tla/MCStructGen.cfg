CONSTANTS
  NStructs = 3
  UINT_MOD = 65536
  Programs <- MCPrograms
SPECIFICATION Spec
INVARIANTS
  TypeOK
  DeclaredBeforeUse
  NoRedefinition
  CacheHoldsSizeof
  LayoutAgrees
  MetaLostToEarlierCall
PROPERTIES
  Terminates
  ImplementsDeclOrder
