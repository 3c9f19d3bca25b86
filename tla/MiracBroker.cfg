SPECIFICATION Spec
CONSTANTS
  MaxMessages = 3
  MaxBody = 2
INVARIANTS
  TypeOK
  PayloadIsOwnBody
  OnlyABodyIsHeldBack
PROPERTIES
  DeliversInOrder
  WholeMessagesAreHandled
CHECK_DEADLOCK FALSE
