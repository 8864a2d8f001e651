CONSTANTS
  None = None
  kDefaultExpiredTime = 1
  kDefaultKeepAliveTime = 2
  Conns = {c1, c2}
  Fds = {1, 2}
  TimeWrap = 100
  MaxSegments = 1
  MaxClock = 1
SPECIFICATION Spec
CHECK_DEADLOCK FALSE
SYMMETRY ConnSymmetry
INVARIANTS TypeOK NoDanglingHandler OneTimer ConnectedIsTimed NoLostEdge
  ClosedIsDestroyed
PROPERTY PassLeavesNothingOverdue
