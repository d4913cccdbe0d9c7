SPECIFICATION Spec
CONSTANTS
  r1 = r1
  r2 = r2
  Archives = {r1, r2}
  CanFail <- EveryStep
  SyncCanFail <- PublishSteps
INVARIANTS
  TypeOK
  DigestMakesItBootable
  ReportedIsDurable
  NoDamagedRoot
  TemporariesAreRemoved
