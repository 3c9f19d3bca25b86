SPECIFICATION Spec
CONSTANTS
  MaxSinkCommands = 0
  MaxSourceCommands = 3
  Users = "careful"
INVARIANTS
  RequestsArriveInSequence
CHECK_DEADLOCK FALSE
