SPECIFICATION Spec
CONSTANTS
  MaxSinkCommands = 1
  MaxSourceCommands = 0
  Users = "hasty"
PROPERTIES
  TeardownLeavesState4
CHECK_DEADLOCK FALSE
