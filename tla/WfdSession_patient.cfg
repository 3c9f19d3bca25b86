SPECIFICATION FairSpec
CONSTANTS
  MaxSinkCommands = 4
  MaxSourceCommands = 4
  Users = "patient"
INVARIANTS
  NothingFollowsABody
PROPERTIES
  CommandsTakeEffect
CHECK_DEADLOCK FALSE
