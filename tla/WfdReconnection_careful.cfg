SPECIFICATION ReconnectionSpec
CONSTANTS
  MaxSinkCommands = 3
  MaxSourceCommands = 3
  Users = "careful"
  MaxRestarts = 2
INVARIANTS
  StatesAgreeAtRest
  StreamHasSession
PROPERTIES
  SessionStarts
  EveryRequestIsAnswered
CHECK_DEADLOCK FALSE
