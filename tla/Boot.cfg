SPECIFICATION Spec
CONSTANTS
  Timeouts <- TimeoutValues
  DefaultTimeout = 3
  MaxKeys = 3
  HostMounts <- FewToAll
  Submounts <- BusyDev
  CanFail <- AllFail
INVARIANTS
  TypeOK
  FallbackUndoesNewRoot
  RamRootIsComplete
  MenuTakesFirstChoice
  MenuWaitsItsTimeout
PROPERTIES
  BootEnds
