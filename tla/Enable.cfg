SPECIFICATION Spec
CONSTANTS
  SyncCanBeLost <- AllSteps
INVARIANTS
  TypeOK
  OneShotShowsOneMenu
  EnabledIsDurable
PROPERTIES
  ImplementsEnableMode
