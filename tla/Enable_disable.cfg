SPECIFICATION Spec
CONSTANTS
  SyncCanBeLost <- AllSteps
INVARIANTS
  DisabledIsDurable
