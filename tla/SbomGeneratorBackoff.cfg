SPECIFICATION Spec
CONSTANTS
  MaxRetries = 15
  IsRunningAsDaemonSet = TRUE
  ConfiguredSources = {}
PROPERTY BackoffIsExponential
CHECK_DEADLOCK FALSE
