SPECIFICATION SourceSideSpec
CONSTANTS
  MaxPeerRequests = 5
  MaxInFlight = 1
  MaxCommands = 1
INVARIANTS
  SourceSideTypeOK
  SourceReplyHasHandler
  StreamFollowsSession
CHECK_DEADLOCK FALSE
