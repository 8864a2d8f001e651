CONSTANTS
  None = None
  kDefaultExpiredTime = 1
  kDefaultKeepAliveTime = 2
  Conns = {c1}
  Fds = {1}
  TimeWrap = 3
  MaxSegments = 3
  MaxClock = 5
SPECIFICATION FairSpec
CHECK_DEADLOCK FALSE
PROPERTIES NoEarlyTimeout AcceptedIsAdopted InputIsRead
