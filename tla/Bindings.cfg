SPECIFICATION Spec
CONSTANTS
  SigTypes <- MCSigTypes
  Depth <- MCDepth
  Files <- MCFiles
  SafeDLLs <- MCSafeDLLs
  KernelDLLs <- MCKernelDLLs
  Fixture <- MCFixture
  IntBits = 4
  StorageBits = 5
INVARIANTS
  InventoryIsFaithful
  CallsFitWords
  GeneratedIsDeclared
  AccessorsAgree
CHECK_DEADLOCK FALSE
