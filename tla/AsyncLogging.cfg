CONSTANTS
  Null = Null
  kLargeBuffer = 3
  kMaxBuffers = 3
  kFlushEveryN = 2
  kStdioBuffer = 2
  MaxMessages = 8
  MaxFailures = 2
  kSmallBuffer = 20
  kMaxNumericSize = 5
  Width = 8
SPECIFICATION FairSpec
CHECK_DEADLOCK FALSE
INVARIANTS NoAssertFails LinesAreFaithful
PROPERTIES AppendedIsSettled StopReturns ImplementsChannel
