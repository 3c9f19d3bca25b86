SPECIFICATION Spec
CONSTANTS
  MaxHandles = 4
  MaxAddresses = 2
  MaxConnections = 2
  MaxMessages = 1
CHECK_DEADLOCK FALSE
INVARIANT KeepsTrying
