CONSTANTS
  MaxHops = 4
  SinkUdpPort = 16384
  INT_MAX = 131071
  ULLONG_MAX = 4194303
SPECIFICATION Spec
INVARIANTS
  MembersFitTheirTypes
  ReadAsSent
  PassedOnUnchanged
  ProgramsAreUnderstood
CHECK_DEADLOCK FALSE
