CONSTANTS
  UINT_MOD = 4
  Id <- MCId
  None = ""
  Handle = "ImageLoader::Handle"
  Libraries <- MCLibraries
SPECIFICATION Spec
INVARIANTS
  DemangleFailureReported
