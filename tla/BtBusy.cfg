SPECIFICATION Spec
CONSTANTS
  MaxTxn = 3
  Budget <- OneRetry
PROPERTY NeverBusyHost
CHECK_DEADLOCK FALSE
