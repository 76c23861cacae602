CONSTANTS
  UINT_MOD = 4
  Id <- MCId
  None = ""
  Handle = "ImageLoader::Handle"
  Libraries <- MCLibraries
SPECIFICATION Spec
INVARIANTS
  TypeOK
  BlocksHoldRegisters
  BlocksNamed
  BindingsAreOwn
  TypesBeforeUse
  NamesUnique
  EntrypointsAreDeclared
  CrashHasCause
  SignaturesAsDeclared
PROPERTIES
  Terminates
