SPECIFICATION Spec
CONSTANTS
  MaxHandles = 4
  MaxAddresses = 2
  MaxConnections = 3
  MaxMessages = 3
CHECK_DEADLOCK FALSE
INVARIANT TypeOK
INVARIANT NothingLostOrRepeated
INVARIANT OpenConnectionIsWatched
INVARIANT FirstAttemptIsWatched
INVARIANT StaleHeaderMisreadOnce
PROPERTY UnsentIsSent
PROPERTY SinkConnects
