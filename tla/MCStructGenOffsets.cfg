CONSTANTS
  NStructs = 3
  UINT_MOD = 65536
  Programs <- MCPrograms
SPECIFICATION Spec
INVARIANT OffsetCommentsHold
