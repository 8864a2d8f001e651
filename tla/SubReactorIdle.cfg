CONSTANTS
  None = None
  kDefaultExpiredTime = 1
  kDefaultKeepAliveTime = 2
  Conns = {c1}
  Fds = {1}
  TimeWrap = 100
  MaxSegments = 1
  MaxClock = 3
SPECIFICATION FairSpec
CHECK_DEADLOCK FALSE
PROPERTY TimedOutIsClosed
