CONSTANTS
  MaxRequests = 3
  RequestLength = 2
  ResponseLength = 4
  EchoLength = 2
  PageParts <- MCPageParts
  kMaxBuff = 2
  SendRoom = 3
SPECIFICATION FairSpec
CHECK_DEADLOCK FALSE
INVARIANTS NobodyStalls
PROPERTIES ImplementsStreams OutputIsDelivered
