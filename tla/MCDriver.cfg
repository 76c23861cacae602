CONSTANTS
  Word <- MCWord
  Argvs <- MCArgvs
  Exports <- MCExports
SPECIFICATION Spec
INVARIANTS
  TypeOK
  ExitZeroMeansBuilt
  FailureHasCause
  NoTargetSkipped
  OperandsStayOperands
  JobsHaveProfile
  SpirvArgumentsIntact
PROPERTIES
  Terminates
  ImplementsBatch
