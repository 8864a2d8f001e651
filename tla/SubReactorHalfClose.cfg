CONSTANTS
  None = None
  kDefaultExpiredTime = 1
  kDefaultKeepAliveTime = 2
  Conns = {c1}
  Fds = {1}
  TimeWrap = 100
  MaxSegments = 1
  MaxClock = 2
SPECIFICATION Spec
CHECK_DEADLOCK FALSE
INVARIANT OpenIsTimed
