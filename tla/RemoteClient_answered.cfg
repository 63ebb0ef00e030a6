CONSTANTS
  MaxRetries = 1
SPECIFICATION Spec
PROPERTY OnlyNetworkFailuresAreRepeated
CHECK_DEADLOCK FALSE
