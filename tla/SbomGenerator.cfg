SPECIFICATION Spec
CONSTANTS
  MaxRetries = 15
  IsRunningAsDaemonSet = TRUE
  ConfiguredSources = {}
INVARIANTS
  TypeOK
  AttemptsBounded
  PlatformKept
CHECK_DEADLOCK FALSE
