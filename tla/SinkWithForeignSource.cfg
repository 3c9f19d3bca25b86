SPECIFICATION SinkSideSpec
CONSTANTS
  MaxPeerRequests = 5
  MaxInFlight = 2
  MaxCommands = 1
INVARIANTS
  SinkSideTypeOK
  SinkReplyHasHandler
  SessionDataKnown
PROPERTIES
  SinkStopsWaiting
CHECK_DEADLOCK FALSE
