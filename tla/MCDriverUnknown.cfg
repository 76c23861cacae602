CONSTANTS
  Word <- MCWord
  Argvs <- MCArgvs
  Exports <- MCExports
SPECIFICATION Spec
INVARIANT UnknownTargetReported
