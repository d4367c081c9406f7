SPECIFICATION Spec
CONSTANTS
  BufLen = 2
PROPERTIES
  SuccessMeansSent
CHECK_DEADLOCK FALSE
