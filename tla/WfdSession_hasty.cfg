SPECIFICATION Spec
CONSTANTS
  MaxSinkCommands = 3
  MaxSourceCommands = 2
  Users = "hasty"
INVARIANTS
  TypeOK
  ReplyAnswersExpectedRequest
  ExchangesInOrder
  NoOrphanExchange
  SourceHasPipelineToCommand
PROPERTIES
  ImplementsAgreement
CHECK_DEADLOCK FALSE
