SPECIFICATION Spec
CONSTANTS
  a = a
  b = b
  Procs = {a}
  OriginalKind = "regular"
  CanFail <- HandledFailures
  SyncCanFail <- HandledSyncFailures
INVARIANTS
  TypeOK
  AlwaysBootable
  InstalledIsDurable
  UninstalledIsClean
  UninstallStaysPossible
PROPERTIES
  FailedInstallLeavesNoTrace
