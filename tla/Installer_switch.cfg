SPECIFICATION Spec
CONSTANTS
  a = a
  b = b
  Procs = {a}
  OriginalKind = "regular"
  CanFail <- Nothing
  SyncCanFail <- OnlySwitch
INVARIANTS
  AlwaysBootable
