SPECIFICATION Spec
CONSTANTS
  a = a
  b = b
  Procs = {a, b}
  OriginalKind = "regular"
  CanFail <- Nothing
  SyncCanFail <- Nothing
INVARIANTS
  AlwaysBootable
